---- MODULE Spec2Model ----
(***************************************************************************)
(* Project PHANTOM: four-layer event pipeline (Layer0 trap detector,       *)
(* Layer1 absorption engine, Layer2 ignition engine, Layer3 executor)      *)
(* connected by bounded asyncio queues with a drop-oldest emit policy.     *)
(*                                                                         *)
(* The module holds one state machine per subsystem; each specification    *)
(* moves its own group of variables and leaves the others unchanged:       *)
(*   SpecChannel  - bounded channel, _emit_with_drop_oldest, receivers     *)
(*   SpecBackoff  - REST poller and stream worker retry/backoff loops      *)
(*   SpecStop     - the tasks of one layer, the stop event and run_layerN  *)
(*                  (with the fairness the event loop gives runnable tasks) *)
(*   SpecLayers   - the TTL, single-shot and entry-guard logic per layer   *)
(*   SpecGuards   - Layer3 in both modes under every entry-guard setting   *)
(*   SpecSeen     - Layer3 with a seen-id FIFO small enough to fill      *)
(*   SpecExecutor - Layer3 in paper and live mode, with and without notifier *)
(*   SpecAbsorption - Layer1 alone: its consumer and its scoring loop       *)
(*   SpecIgnition - Layer2's confirmations, detector failures and gate       *)
(*   SpecPlanner  - Layer3's build_execution_plan over a grid of inputs      *)
(*   SpecBook     - Layer0's LiquidationBook: add, prune, proximity scores   *)
(*   SpecReasons  - the degrade_reason every layer writes into its events    *)
(*   SpecScores   - the breakdowns and scores of Layer0, Layer1 and Layer2   *)
(*   SpecLayer0   - the snapshot pollers and the scoring loop of Layer0     *)
(*   SpecGate     - the Layer0 gate, regime filter and adaptive threshold   *)
(***************************************************************************)
EXTENDS Integers, Sequences, FiniteSets, TLC

(***************************************************************************)
(* Bounds of the model.                                                    *)
(***************************************************************************)
\* largest queue capacity (asyncio.Queue maxsize) explored; 0 is unbounded
MaxCap == 2
\* number of events the producers emit in one behaviour
MaxEvents == 5
\* number of producers sharing one channel (per-symbol Layer3 instances)
NumProducers == 2

(***************************************************************************)
(* The state.                                                              *)
(***************************************************************************)
VARIABLES
    maxsize,        \* asyncio.Queue.maxsize of the channel
    out_queue,      \* queued events, oldest first
    queue_drops,    \* HealthCounters.queue_drops of each producer
    putters,        \* producers suspended inside Queue.put, with their event
    next_event,     \* next fresh event id
    last_emit,      \* record of the last _emit_with_drop_oldest call
    received        \* events the consumer's in_queue.get() has returned

chanVars == <<maxsize, out_queue, queue_drops, putters, next_event, last_emit,
              received>>

VARIABLES
    stop_event,     \* the shared asyncio.Event: TRUE once set
    backoff_min,    \* config.backoff.min_seconds
    backoff_max,    \* config.backoff.max_seconds
    reconnects,     \* HealthCounters.reconnects[client.name]
    poller,         \* a REST poller task: pc, backoff, and the record of its failures
    streamer        \* a stream worker task: pc, backoff, and the record of its failures

boVars == <<backoff_min, backoff_max, reconnects, poller, streamer>>

VARIABLES
    layer,          \* which run_layerN this behaviour runs: 0..3
    tasks,          \* task name -> where the task is
    cancel_sent,    \* the tasks run_layerN has called cancel() on
    runner,         \* run_layerN itself: "waiting", "gathering", "closing", "returned"
    cadence_seconds \* config.cadence_seconds of the layer

stopVars == <<layer, tasks, cancel_sent, runner, cadence_seconds>>

VARIABLES
    now,                    \* time.time() * 1000, truncated
    ticks,                  \* clock advances so far
    ttl_seconds,            \* setup_ttl_seconds (Layer1, Layer2) / pre_pump_ttl_seconds (Layer3)
    discarded_expired,      \* an expired upstream event has been cleared or discarded
    active_setup,           \* _Layer1State.active_setup
    absorption_event,       \* the last AbsorptionEvent Layer1 emitted
    absorptions,            \* trap setup id -> AbsorptionEvents emitted from it
    active_absorption,      \* _Layer2State.active_absorption
    candles,                \* _Layer2State.candles is not None
    enable_smartmoneyconcepts, \* Layer2Config.enable_smartmoneyconcepts
    min_confirmations,      \* Layer2ThresholdConfig.min_confirmations
    last_candle_error,      \* _Layer2State.last_candle_error ("" is None)
    last_smc_error,         \* _Layer2State.last_smc_error ("" is None)
    l2_cycle,               \* the Layer2 scoring cycle: its pc and its locals
    l2_decision,            \* what the last Layer2 cycle that built a breakdown decided
    deliveries,             \* absorption id -> times delivered to Layer2
    ignitions,              \* absorption id -> PrePumpEvents emitted from it
    pre_pump_event,         \* the last PrePumpEvent Layer2 emitted
    min_entry_gap_us,       \* guard.min_seconds_between_entries, in microseconds
    max_entries_per_hour,   \* guard.max_entries_per_hour
    l3_call,                \* _process_event in progress: its pc and its locals
    last_entry_ts_ms,       \* run_layer3's last_entry_ts_ms (-1 is None)
    recent_entry_ts,        \* run_layer3's recent_entry_ts
    seen_source_event_ids,  \* run_layer3's seen_source_event_ids
    seen_source_fifo,       \* run_layer3's seen_source_fifo
    seen_fifo_maxlen,       \* seen_source_fifo.maxlen
    executions,             \* every ExecutionEvent emitted, in order
    execution_event,        \* the last ExecutionEvent emitted, with the event it came from
    l3_errors,              \* HealthCounters.reconnects["layer3_executor"]
    live_mode,              \* enable_execution and execution_mode == "live"
    telegram_enabled,       \* a notifier is present and config.telegram.enabled
    l3_return,              \* where the last call of _process_event past the TTL filter ended
    order_calls,            \* futures_create_order calls received for the last event tried
    error_alerts            \* error notifications attempted by the except branch

VARIABLES
    emitted_events,         \* HealthCounters.emitted_events of the layer that runs
    last_emitted_ts_ms      \* HealthCounters.last_emitted_ts_ms, -1 for None

healthVars == <<emitted_events, last_emitted_ts_ms>>

VARIABLES
    layer0_config,          \* the Layer0Config fields the scoring loop reads
    states,                 \* exchange name -> _ExchangeState
    score_history,          \* _scoring_loop's score_history
    cycles,                 \* scoring cycles started so far
    l0_cycle,               \* what the last scoring cycle saw and did
    trap_event              \* the last TrapSetupEvent Layer0 emitted

l0Vars == <<layer0_config, states, score_history, cycles, l0_cycle, trap_event>>

VARIABLES
    plan_request,           \* the arguments of a build_execution_plan call
    plan,                   \* the ExecutionPlan it returned
    book_events,            \* LiquidationBook._events, oldest first
    proximity               \* the last LiquidationProximity, with the call's arguments

VARIABLES
    reason_codes,           \* degraded_reasons: the reason codes a cycle appended, in order
    degrade_reason          \* the degrade_reason of the event that cycle emitted

VARIABLES
    score_input,            \* what one scoring cycle of a layer measured
    score_output            \* the breakdown and the score it computed

plannerVars == <<plan_request, plan>>
scoreVars == <<score_input, score_output>>
bookVars == <<book_events, proximity>>
reasonVars == <<reason_codes, degrade_reason>>

clockVars == <<now, ticks>>
l1Vars == <<active_setup, absorption_event, absorptions>>
l2Vars == <<active_absorption, candles, enable_smartmoneyconcepts, min_confirmations,
            last_candle_error, last_smc_error, l2_cycle, l2_decision,
            deliveries, ignitions, pre_pump_event>>
l3Vars == <<min_entry_gap_us, max_entries_per_hour, l3_call, last_entry_ts_ms,
            recent_entry_ts, seen_source_event_ids, seen_source_fifo,
            seen_fifo_maxlen, executions, execution_event, l3_errors, live_mode, telegram_enabled, l3_return,
            order_calls, error_alerts>>
layerVars == <<ttl_seconds, discarded_expired, l0Vars, l1Vars, l2Vars, l3Vars,
               plannerVars, bookVars, reasonVars, scoreVars, healthVars>>


\* what the actions of one subsystem leave alone
chanOthers == <<stop_event, boVars, stopVars, clockVars, layerVars>>
boOthers == <<chanVars, stopVars, clockVars, layerVars>>
stopOthers == <<chanVars, boVars, clockVars, layerVars>>
l1Others == <<chanVars, stop_event, boVars, tasks, cancel_sent, runner,
              cadence_seconds, clockVars,
              layer, ttl_seconds, l0Vars, l2Vars, l3Vars, plannerVars, bookVars, reasonVars,
              scoreVars>>
l2Others == <<chanVars, stop_event, boVars, tasks, cancel_sent, runner,
              cadence_seconds, clockVars,
              layer, ttl_seconds, l0Vars, l1Vars, l3Vars, plannerVars, bookVars, reasonVars,
              scoreVars>>
l3Others == <<chanVars, stop_event, boVars, tasks, cancel_sent, runner,
              cadence_seconds, clockVars,
              layer, ttl_seconds, l0Vars, l1Vars, l2Vars, plannerVars, bookVars, reasonVars,
              scoreVars>>
l0Others == <<chanVars, stop_event, boVars, stopVars, clockVars, ttl_seconds,
              discarded_expired, l1Vars, l2Vars, l3Vars, plannerVars, bookVars, reasonVars,
              scoreVars>>
plannerOthers == <<chanVars, stop_event, boVars, stopVars, clockVars, ttl_seconds,
                   discarded_expired, l0Vars, l1Vars, l2Vars, l3Vars, bookVars,
                   reasonVars, scoreVars, healthVars>>
bookOthers == <<chanVars, stop_event, boVars, stopVars, clockVars, ttl_seconds,
                discarded_expired, l0Vars, l1Vars, l2Vars, l3Vars, plannerVars,
                reasonVars, scoreVars, healthVars>>
reasonOthers == <<chanVars, stop_event, boVars, stopVars, clockVars, ttl_seconds,
                  discarded_expired, l0Vars, l1Vars, l2Vars, l3Vars, plannerVars,
                  bookVars, scoreVars, healthVars>>
scoreOthers == <<chanVars, stop_event, boVars, stopVars, clockVars, ttl_seconds,
                 discarded_expired, l0Vars, l1Vars, l2Vars, l3Vars, plannerVars,
                 bookVars, reasonVars, healthVars>>
tickOthers == <<chanVars, stop_event, boVars, stopVars, layerVars>>

vars == <<chanVars, stop_event, boVars, stopVars, clockVars, layerVars>>

(***************************************************************************)
(* Channel state (SpecChannel).                                            *)
(***************************************************************************)
Producers == 1..NumProducers

NoEmit == [op |-> "none"]

\* asyncio.Queue.full(): a queue with maxsize <= 0 is never full
QueueFull(q, cap) == cap > 0 /\ Len(q) >= cap

\* mutant: the new event is appended without discarding anything
EmitAppendOnly(q, event, cap, drops) ==
    [queue |-> Append(q, event), drops |-> drops, blocked |-> FALSE]

\* mutant: the newest queued event is discarded instead of the oldest
EmitDropNewest(q, event, cap, drops) ==
    LET dropping == cap > 0 /\ QueueFull(q, cap) /\ q # <<>>
        q1 == IF dropping THEN SubSeq(q, 1, Len(q) - 1) ELSE q
    IN  [queue |-> Append(q1, event),
         drops |-> IF dropping THEN drops + 1 ELSE drops,
         blocked |-> FALSE]

\* mutant: no get_nowait before the put, so the put waits for a free slot
EmitNoDiscard(q, event, cap, drops) ==
    [queue |-> IF QueueFull(q, cap) THEN q ELSE Append(q, event),
     drops |-> drops,
     blocked |-> QueueFull(q, cap)]

\* mutant: the oldest event is discarded without health.queue_drops += 1
EmitDropUncounted(q, event, cap, drops) ==
    LET q1 == IF QueueFull(q, cap) /\ q # <<>> THEN Tail(q) ELSE q
    IN  [queue |-> Append(q1, event), drops |-> drops, blocked |-> FALSE]

\* _emit_with_drop_oldest(out_queue, event, health):
\*   if out_queue.maxsize > 0 and out_queue.full():
\*       with suppress(QueueEmpty): out_queue.get_nowait(); health.queue_drops += 1
\*   await out_queue.put(event)
\* Queue.put suspends the caller while the queue is full ("blocked"); there is
\* no suspension point between the full() test and the put.
EmitWithDropOldest(q, event, cap, drops) ==
    LET dropping == cap > 0 /\ QueueFull(q, cap)
        got == dropping /\ q # <<>>          \* get_nowait did not raise QueueEmpty
        q1 == IF got THEN Tail(q) ELSE q
        d1 == IF got THEN drops + 1 ELSE drops
        waits == QueueFull(q1, cap)
    IN  [queue |-> IF waits THEN q1 ELSE Append(q1, event),
         drops |-> d1,
         blocked |-> waits]

InitChannel ==
    /\ maxsize \in 0..MaxCap
    /\ out_queue = <<>>
    /\ queue_drops = [p \in Producers |-> 0]
    /\ putters = [p \in Producers |-> 0]
    /\ next_event = 1
    /\ last_emit = NoEmit
    /\ received = <<>>

\* A producer (a scoring loop, or _process_event of one Layer3 instance) emits
\* a freshly built event.
Emit(p) ==
    /\ putters[p] = 0
    /\ next_event <= MaxEvents
    /\ LET r == EmitWithDropOldest(out_queue, next_event, maxsize, queue_drops[p])
       IN  /\ out_queue' = r.queue
           /\ queue_drops' = [queue_drops EXCEPT ![p] = r.drops]
           /\ putters' = [putters EXCEPT ![p] = IF r.blocked THEN next_event ELSE 0]
           /\ last_emit' = [op |-> "emit", producer |-> p, event |-> next_event,
                            pre_queue |-> out_queue, pre_drops |-> queue_drops[p],
                            was_full |-> QueueFull(out_queue, maxsize)]
    /\ next_event' = next_event + 1
    /\ UNCHANGED <<maxsize, received>>
    /\ UNCHANGED chanOthers

\* The consumer's asyncio.wait_for(queue.get(), timeout) returns the oldest
\* event; Queue.get wakes the first suspended putter, which then completes.
Receive ==
    /\ out_queue # <<>>
    /\ LET q1 == Tail(out_queue)
           waiting == {p \in Producers : putters[p] # 0}
       IN  IF waiting = {}
           THEN /\ out_queue' = q1
                /\ UNCHANGED putters
           ELSE \E p \in waiting :
                /\ out_queue' = Append(q1, putters[p])
                /\ putters' = [putters EXCEPT ![p] = 0]
    /\ last_emit' = NoEmit
    /\ received' = Append(received, Head(out_queue))
    /\ UNCHANGED <<maxsize, queue_drops, next_event>>
    /\ UNCHANGED chanOthers

NextChannel ==
    \/ \E p \in Producers : Emit(p)
    \/ Receive

(***************************************************************************)
(* Retry/backoff workers (SpecBackoff).                                    *)
(***************************************************************************)
\* largest BackoffConfig.min_seconds explored (0 is a legal configuration)
MaxMinSeconds == 2
\* largest BackoffConfig.max_seconds explored
MaxMaxSeconds == 4
\* number of collaborator failures in one behaviour
MaxFailures == 3

Min(a, b) == IF a <= b THEN a ELSE b

\* _sleep_or_stop(stop_event, seconds), up to its suspension point:
\*   seconds <= 0: returns stop_event.is_set() at once;
\*   otherwise waits on stop_event.wait() with a timeout: returns True at once
\*   when the event is already set, else suspends the task.
SleepOrStop(stop, seconds) ==
    IF seconds <= 0
    THEN IF stop THEN "stopped" ELSE "continue"
    ELSE IF stop THEN "stopped" ELSE "suspend"

\* mutant: the doubled delay is not clamped to max_seconds
GrowUnclamped(b) == b * 2

\* backoff = min(config.backoff.max_seconds, backoff * 2)
GrowBackoff(b) == Min(backoff_max, b * 2)

\* the success path of a poller: backoff = config.backoff.min_seconds
PollSucceeded(w) == [w EXCEPT !.backoff = backoff_min, !.streak = 0]

\* health.increment_reconnect(name)
CountReconnect(n) == n + 1

\* mutant: the worker gives up on a failure instead of sleeping and retrying
AfterFailureGiveUp(w, stop) ==
    [w EXCEPT !.pc = "done", !.failures = @ + 1, !.streak = @ + 1, !.slept = w.backoff]

\* The except-branch shared by all workers, after the reconnect is counted:
\*   if await _sleep_or_stop(stop_event, backoff): return
\*   backoff = min(max_seconds, backoff * 2)
\* A delay <= 0 does not suspend: the loop test and the next attempt follow at once.
AfterFailure(w, stop) ==
    LET r == SleepOrStop(stop, w.backoff)
        f == [w EXCEPT !.failures = @ + 1, !.streak = @ + 1, !.slept = w.backoff]
    IN  CASE r = "stopped"  -> [f EXCEPT !.pc = "done"]
          [] r = "suspend"  -> [f EXCEPT !.pc = "sleep_fail"]
          [] r = "continue" -> [f EXCEPT !.pc = "io", !.backoff = GrowBackoff(w.backoff)]

NewWorker == [pc |-> "head", backoff |-> backoff_min, failures |-> 0, streak |-> 0,
              slept |-> 0, delivered |-> FALSE]

InitBackoff ==
    /\ backoff_min \in 0..MaxMinSeconds
    /\ backoff_max \in 0..MaxMaxSeconds
    /\ reconnects = 0
    /\ poller = NewWorker
    /\ streamer = NewWorker

\* stop_event.set(): by the operator of the bot, or by main()'s finally block
SetStop ==
    /\ ~stop_event
    /\ stop_event' = TRUE

BackoffSetStop ==
    /\ SetStop
    /\ UNCHANGED <<backoff_min, backoff_max, reconnects, poller, streamer>>
    /\ UNCHANGED boOthers

\* while not stop_event.is_set(): ... (a resumed task tests the loop condition
\* and starts its next await without suspending in between)
LoopTest(w, stop) == [w EXCEPT !.pc = IF stop THEN "done" ELSE "io"]

\* _snapshot_poller / _candle_poller / _stablecoin_flow_poller
PollerLoop ==
    /\ poller.pc = "head"
    /\ poller' = LoopTest(poller, stop_event)
    /\ UNCHANGED <<stop_event, backoff_min, backoff_max, reconnects, streamer>>
    /\ UNCHANGED boOthers

\* the fetch returns: state is stored, backoff reset, then the poll-interval sleep
PollerFetchOk ==
    /\ poller.pc = "io"
    /\ poller' = [PollSucceeded(poller) EXCEPT
                     !.pc = IF stop_event THEN "done" ELSE "sleep_ok"]
    /\ UNCHANGED <<stop_event, backoff_min, backoff_max, reconnects, streamer>>
    /\ UNCHANGED boOthers

\* the fetch raises
PollerFetchFail ==
    /\ poller.pc = "io"
    /\ poller.failures + streamer.failures < MaxFailures
    /\ reconnects' = CountReconnect(reconnects)
    /\ poller' = AfterFailure(poller, stop_event)
    /\ UNCHANGED <<stop_event, backoff_min, backoff_max, streamer>>
    /\ UNCHANGED boOthers

\* a sleep ends because the stop event fired: _sleep_or_stop returns True
WokenByStop(w) == [w EXCEPT !.pc = "done"]

\* a sleep ends by timeout: _sleep_or_stop returns False
TimedOut(w) ==
    IF w.pc = "sleep_fail"
    THEN [w EXCEPT !.pc = "head", !.backoff = GrowBackoff(w.backoff)]
    ELSE [w EXCEPT !.pc = "head"]

PollerWake ==
    /\ poller.pc \in {"sleep_ok", "sleep_fail"}
    /\ stop_event
    /\ poller' = WokenByStop(poller)
    /\ UNCHANGED <<stop_event, backoff_min, backoff_max, reconnects, streamer>>
    /\ UNCHANGED boOthers

PollerTimeout ==
    /\ poller.pc \in {"sleep_ok", "sleep_fail"}
    /\ poller' = TimedOut(poller)
    /\ UNCHANGED <<stop_event, backoff_min, backoff_max, reconnects, streamer>>
    /\ UNCHANGED boOthers

\* _liquidation_worker / _trade_collector
StreamLoop ==
    /\ streamer.pc = "head"
    /\ streamer' = LoopTest(streamer, stop_event)
    /\ UNCHANGED <<stop_event, backoff_min, backoff_max, reconnects, poller>>
    /\ UNCHANGED boOthers

\* the stream yields an item: return if stopped, else store it and keep reading.
\* Neither worker touches backoff here.
StreamDelivered(w, stop) ==
    IF stop THEN [w EXCEPT !.pc = "done"]
    ELSE [w EXCEPT !.streak = 0, !.delivered = TRUE]

StreamItem ==
    /\ streamer.pc = "io"
    /\ streamer' = StreamDelivered(streamer, stop_event)
    /\ UNCHANGED <<stop_event, backoff_min, backoff_max, reconnects, poller>>
    /\ UNCHANGED boOthers

\* the stream raises, or ends (the worker raises RuntimeError itself)
StreamFail ==
    /\ streamer.pc = "io"
    /\ poller.failures + streamer.failures < MaxFailures
    /\ reconnects' = CountReconnect(reconnects)
    /\ streamer' = AfterFailure(streamer, stop_event)
    /\ UNCHANGED <<stop_event, backoff_min, backoff_max, poller>>
    /\ UNCHANGED boOthers

StreamWake ==
    /\ streamer.pc = "sleep_fail"
    /\ stop_event
    /\ streamer' = WokenByStop(streamer)
    /\ UNCHANGED <<stop_event, backoff_min, backoff_max, reconnects, poller>>
    /\ UNCHANGED boOthers

StreamTimeout ==
    /\ streamer.pc = "sleep_fail"
    /\ streamer' = TimedOut(streamer)
    /\ UNCHANGED <<stop_event, backoff_min, backoff_max, reconnects, poller>>
    /\ UNCHANGED boOthers

NextBackoff ==
    \/ BackoffSetStop
    \/ PollerLoop \/ PollerFetchOk \/ PollerFetchFail \/ PollerWake \/ PollerTimeout
    \/ StreamLoop \/ StreamItem \/ StreamFail \/ StreamWake \/ StreamTimeout

(***************************************************************************)
(* The tasks of one layer and its run_layerN (SpecStop).                   *)
(* A task is "head" (resumed, about to test its loop condition), suspended *)
(* in "io" (a collaborator call), "sleep" (_sleep_or_stop) or "qwait"      *)
(* (wait_for(queue.get(), timeout)), or finished: "done" (it returned) or  *)
(* "cancelled" (CancelledError ended it).                                  *)
(***************************************************************************)
\* The tasks run_layerN creates, and the shape of each one's loop.
TaskKind(l) ==
    CASE l = 0 -> [snapshot_poller |-> "poller", liquidation_worker |-> "stream",
                   scoring_loop |-> "scoring"]
      [] l = 1 -> [trap_consumer |-> "consumer", trade_collector |-> "stream",
                   scoring_loop |-> "scoring", stablecoin_poller |-> "poller"]
      [] l = 2 -> [absorption_consumer |-> "consumer", candle_poller |-> "poller",
                   scoring_loop |-> "detect_scoring"]
      [] l = 3 -> [prepump_consumer |-> "l3_consume"]

AllTaskNames == UNION {DOMAIN TaskKind(l) : l \in 0..3}

\* the tasks of the layer that runs
TaskNames == {t \in AllTaskNames : tasks[t] # "absent"}

Finished(t) == tasks[t] \in {"done", "cancelled"}

\* Where a task suspends first after its loop test found the stop event clear.
\* The Layer2 scoring loop awaits the detector only in a cycle that has an
\* active absorption and candles; every other scoring cycle runs to its sleep.
FirstAwait(kind) ==
    CASE kind = "poller" -> {"io"}
      [] kind = "stream" -> {"io"}
      [] kind = "consumer" -> {"qwait"}
      [] kind = "l3_consume" -> {"qwait"}
      [] kind = "scoring" -> {"sleep"}
      [] kind = "detect_scoring" -> {"io", "sleep"}

\* if await _sleep_or_stop(stop_event, seconds): return     (seconds > 0)
SleepNext(stop) == IF SleepOrStop(stop, 1) = "stopped" THEN "done" ELSE "sleep"

\* config.cadence_seconds explored: 0 is accepted by the configuration
CadenceChoices == {0, 1}

\* if await _sleep_or_stop(stop_event, config.cadence_seconds): return
\* at the end of an iteration.  With a cadence of 0 the call returns without
\* suspending and the task is back at its loop test: at "head" when the
\* iteration suspended somewhere before, at "spin" when it did not.
CadenceNext(stop, suspended_before) ==
    CASE SleepOrStop(stop, cadence_seconds) = "stopped" -> "done"
      [] SleepOrStop(stop, cadence_seconds) = "suspend" -> "sleep"
      [] OTHER -> IF suspended_before THEN "head" ELSE "spin"

\* A task went round its loop without suspending.  The event loop runs one
\* task at a time and gets control back only when that task suspends or
\* ends, so nothing else of the layer runs any more: the stop event is never
\* set, no other task is resumed, no cancellation is delivered.
Spinning == \E t \in AllTaskNames : tasks[t] = "spin"

\* Where a task goes when its collaborator call returns or raises.  A stream
\* that yields an item is read again unless the stop event is set; everything
\* else ends in a _sleep_or_stop.
AfterIo(kind, stop) ==
    IF kind = "stream"
    THEN {IF stop THEN "done" ELSE "io", SleepNext(stop)}
    ELSE IF kind = "detect_scoring" THEN {CadenceNext(stop, TRUE)}
    ELSE {SleepNext(stop)}

\* Where a task goes when queue.get() hands it an event: the consumers store
\* it and loop; Layer3 processes it (awaiting orders and notification in live
\* mode, nothing in paper mode without Telegram) and then sleeps its cadence.
AfterGet(kind, stop) ==
    IF kind = "l3_consume" THEN {"io", CadenceNext(stop, TRUE)} ELSE {"head"}

\* mutant: run_layerN gathers its tasks without cancelling them
TasksToCancelNone(names) == {}

\* finally: for task in tasks: task.cancel()
TasksToCancel(names) == names

InitStop ==
    /\ layer \in 0..3
    /\ tasks = [t \in AllTaskNames |->
                    IF t \in DOMAIN TaskKind(layer) THEN "head" ELSE "absent"]
    /\ cancel_sent = {}
    /\ runner = "waiting"
    /\ cadence_seconds \in CadenceChoices

StopSetStop ==
    /\ ~Spinning
    /\ SetStop
    /\ UNCHANGED stopVars
    /\ UNCHANGED stopOthers

\* while not stop_event.is_set():
TaskLoopTest(t) ==
    /\ ~Spinning
    /\ tasks[t] = "head"
    /\ t \notin cancel_sent
    /\ IF stop_event
       THEN tasks' = [tasks EXCEPT ![t] = "done"]
       ELSE \E next \in FirstAwait(TaskKind(layer)[t]) :
                tasks' = [tasks EXCEPT ![t] =
                            IF next = "sleep" THEN CadenceNext(stop_event, FALSE)
                            ELSE next]
    /\ UNCHANGED <<stop_event, layer, cadence_seconds, cancel_sent, runner>>
    /\ UNCHANGED stopOthers

TaskIoReturns(t) ==
    /\ ~Spinning
    /\ tasks[t] = "io"
    /\ t \notin cancel_sent
    /\ \E next \in AfterIo(TaskKind(layer)[t], stop_event) :
           tasks' = [tasks EXCEPT ![t] = next]
    /\ UNCHANGED <<stop_event, layer, cadence_seconds, cancel_sent, runner>>
    /\ UNCHANGED stopOthers

TaskQueueGet(t) ==
    /\ ~Spinning
    /\ tasks[t] = "qwait"
    /\ t \notin cancel_sent
    /\ \E next \in AfterGet(TaskKind(layer)[t], stop_event) :
           tasks' = [tasks EXCEPT ![t] = next]
    /\ UNCHANGED <<stop_event, layer, cadence_seconds, cancel_sent, runner>>
    /\ UNCHANGED stopOthers

\* except asyncio.TimeoutError: continue
TaskQueueTimeout(t) ==
    /\ ~Spinning
    /\ tasks[t] = "qwait"
    /\ t \notin cancel_sent
    /\ tasks' = [tasks EXCEPT ![t] = "head"]
    /\ UNCHANGED <<stop_event, layer, cadence_seconds, cancel_sent, runner>>
    /\ UNCHANGED stopOthers

\* _sleep_or_stop times out and returns False
TaskSleepTimeout(t) ==
    /\ ~Spinning
    /\ tasks[t] = "sleep"
    /\ t \notin cancel_sent
    /\ tasks' = [tasks EXCEPT ![t] = "head"]
    /\ UNCHANGED <<stop_event, layer, cadence_seconds, cancel_sent, runner>>
    /\ UNCHANGED stopOthers

\* stop_event.wait() completes inside _sleep_or_stop: it returns True and the
\* worker returns
TaskSleepWake(t) ==
    /\ ~Spinning
    /\ tasks[t] = "sleep"
    /\ t \notin cancel_sent
    /\ stop_event
    /\ tasks' = [tasks EXCEPT ![t] = "done"]
    /\ UNCHANGED <<stop_event, layer, cadence_seconds, cancel_sent, runner>>
    /\ UNCHANGED stopOthers

\* CancelledError is thrown into the task where it is suspended; no handler of
\* the workers catches it (except Exception and suppress(Exception) do not)
TaskCancelled(t) ==
    /\ ~Spinning
    /\ t \in cancel_sent
    /\ ~Finished(t)
    /\ tasks' = [tasks EXCEPT ![t] = "cancelled"]
    /\ UNCHANGED <<stop_event, layer, cadence_seconds, cancel_sent, runner>>
    /\ UNCHANGED stopOthers

\* try: await stop_event.wait()  finally: cancel every task, then gather them
RunnerWake ==
    /\ ~Spinning
    /\ runner = "waiting"
    /\ stop_event
    /\ cancel_sent' = TasksToCancel(TaskNames)
    /\ runner' = "gathering"
    /\ UNCHANGED <<stop_event, layer, cadence_seconds, tasks>>
    /\ UNCHANGED stopOthers

\* mutant: run_layerN goes on as soon as one of its tasks has ended
GatheredFirstCompleted(names) == \E t \in names : Finished(t)

\* asyncio.gather(*tasks, return_exceptions=True) is done when every task is
Gathered(names) == \A t \in names : Finished(t)

\* await asyncio.gather(*tasks, return_exceptions=True) completes
RunnerGathered ==
    /\ ~Spinning
    /\ runner = "gathering"
    /\ Gathered(TaskNames)
    /\ runner' = "closing"
    /\ UNCHANGED <<stop_event, layer, cadence_seconds, tasks, cancel_sent>>
    /\ UNCHANGED stopOthers

\* the collaborators are closed (failures suppressed) and run_layerN returns
RunnerReturn ==
    /\ ~Spinning
    /\ runner = "closing"
    /\ runner' = "returned"
    /\ UNCHANGED <<stop_event, layer, cadence_seconds, tasks, cancel_sent>>
    /\ UNCHANGED stopOthers

NextStop ==
    \/ StopSetStop
    \/ \E t \in TaskNames :
        \/ TaskLoopTest(t) \/ TaskIoReturns(t) \/ TaskQueueGet(t)
        \/ TaskQueueTimeout(t) \/ TaskSleepTimeout(t) \/ TaskSleepWake(t)
        \/ TaskCancelled(t)
    \/ RunnerWake \/ RunnerGathered \/ RunnerReturn

(***************************************************************************)
(* The event logic of Layer1, Layer2 and Layer3 (SpecLayers).  A behaviour *)
(* runs the layer chosen by `layer`; its upstream events arrive from the   *)
(* input queue with any timestamp not in the future.  Time is the wall     *)
(* clock in milliseconds.                                                  *)
(***************************************************************************)
\* number of clock advances in one behaviour
MaxTicks == 1
\* number of distinct upstream event ids
MaxEventIds == 2
\* upstream events delivered to Layer2 in one behaviour
MaxDeliveries == 2
\* events Layer3 takes past its filters in one behaviour
MaxExecutions == 2
\* AbsorptionEvents Layer1 emits in one behaviour
MaxAbsorptions == 2

\* seconds to milliseconds, as in setup_ttl_ms and int(seconds * 1000)
MsPerSecond == 1000
\* the rolling window of the hourly cap
HourMs == 3600000
\* maxlen of seen_source_fifo
SeenFifoMaxlen == 4000
\* capacities of the seen-id FIFO explored where the FIFO has to fill
SeenMaxlenChoices == {1, 2}
\* clamp's upper limit 1.0, in percent
Percent == 100

\* the configurations explored: setup_ttl_seconds / pre_pump_ttl_seconds,
\* guard.min_seconds_between_entries (in microseconds: none, half a
\* millisecond, one, one and a half) and guard.max_entries_per_hour
TtlSecondsChoices == {0, 1}
EntryGapUsChoices == {0, 500, 1000, 1500}
EntriesPerHourChoices == {0, 1}

NoEvent == [id |-> 0, ts_ms |-> 0, direction |-> "NONE", source_trap_event_id |-> 0]
NotEmitted == [ts_ms |-> -1]
EventIds == 1..MaxEventIds

\* the sum of a counter over all event ids
RECURSIVE SumOver(_, _)
SumOver(f, S) ==
    IF S = {} THEN 0
    ELSE LET i == CHOOSE x \in S : TRUE IN f[i] + SumOver(f, S \ {i})

Total(f) == SumOver(f, EventIds)

\* An upstream event is one immutable object: its event_id (a uuid4) fixes
\* its direction and, for an AbsorptionEvent or PrePumpEvent, the trap setup
\* it descends from.
DirectionOf(i) == IF i % 2 = 1 THEN "LONG" ELSE "SHORT"

TrapOf(i) == IF layer = 1 THEN 0 ELSE i + MaxEventIds

\* setup_ttl_ms / pre_pump_ttl_ms
TtlMs == ttl_seconds * MsPerSecond

\* config.symbol, and the symbols an upstream event can carry
ConfigSymbol == "BTCUSDT"
EventSymbols == {"BTCUSDT", "btcusdt", "ETHUSDT"}

\* str.upper() of a symbol
SymbolUpper(symbol) ==
    CASE symbol = "btcusdt" -> "BTCUSDT"
      [] symbol = "ethusdt" -> "ETHUSDT"
      [] OTHER -> symbol

\* The events the input queue can hand over now: emitted upstream at some
\* earlier reading of the clock (just now, a full TTL ago, or a millisecond
\* more), passing or not, for this symbol or another.
Arrivals ==
    {[id |-> i, ts_ms |-> now - age, passed |-> p, symbol |-> s,
      direction |-> DirectionOf(i), source_trap_event_id |-> TrapOf(i)] :
        i \in EventIds, age \in {a \in {0, TtlMs, TtlMs + 1} : a <= now},
        p \in BOOLEAN, s \in {ConfigSymbol, "ETHUSDT"}}

\* mutant: the symbol is not looked at
AcceptedAnySymbol(e) == e.passed

\* the same events with their symbols in any of the letter cases
CasedArrivals ==
    {[e EXCEPT !.symbol = s] : e \in Arrivals, s \in EventSymbols}

\* if not event.passed: continue / if event.symbol.upper() != config.symbol.upper(): continue
Accepted(e) == e.passed /\ SymbolUpper(e.symbol) = SymbolUpper(ConfigSymbol)

Stored(e) == [id |-> e.id, ts_ms |-> e.ts_ms, direction |-> e.direction,
              source_trap_event_id |-> e.source_trap_event_id]

\* mutant: the emitted event is stamped LONG whatever its source says
EmittedDirectionLong(source) == "LONG"

\* direction=setup.direction / absorption.direction / event.direction
EmittedDirection(source) == source.direction

\* The wall clock advances: by a millisecond, a second, an hour, or an hour
\* and a millisecond.
Tick ==
    /\ ticks < MaxTicks
    /\ \E d \in {1, MsPerSecond, HourMs, HourMs + 1} : now' = now + d
    /\ ticks' = ticks + 1
    /\ UNCHANGED tickOthers

InitClock ==
    /\ now = 0
    /\ ticks = 0

(*------------------------------ Layer1 ----------------------------------*)
\* state.active_setup = event: the TrapSetupEvent as received, its symbol in
\* the letter case the producer gave it
StoredSetup(e) == [id |-> e.id, ts_ms |-> e.ts_ms, direction |-> e.direction,
                   source_trap_event_id |-> e.source_trap_event_id, symbol |-> e.symbol]

\* HealthCounters() as run_layerN finds or creates it
InitHealth ==
    /\ emitted_events = 0
    /\ last_emitted_ts_ms = -1

\* HealthCounters.mark_emitted(ts_ms)
MarkEmitted(ts_ms) ==
    /\ emitted_events' = emitted_events + 1
    /\ last_emitted_ts_ms' = ts_ms

\* Layer1 after its emit: health.emitted_events += 1, and nothing else
CountEmitted ==
    /\ emitted_events' = emitted_events + 1
    /\ UNCHANGED last_emitted_ts_ms

\* _trap_setup_consumer: the latest passing setup for the symbol replaces the active one
L1Consume(e) ==
    /\ layer = 1
    /\ active_setup' = IF Accepted(e) THEN StoredSetup(e) ELSE active_setup
    /\ UNCHANGED <<absorption_event, absorptions, discarded_expired>>
    /\ UNCHANGED healthVars
    /\ UNCHANGED l1Others

\* if (now_ms - setup.ts_ms) > config.setup_ttl_ms:
L1Expired(now_ms, setup) == (now_ms - setup.ts_ms) > TtlMs

\* mutant: the setup is cleared once an event has been emitted from it
AfterAbsorptionCleared(setup) == NoEvent

\* state.active_setup after an emission: the loop does not assign it
AfterAbsorption(setup) == setup

\* One cycle of Layer1's _scoring_loop; it has no suspension point before its
\* closing sleep.  enough: len(trades) >= min_trades_for_metrics; gate: the
\* result of passes_absorption_gate.  The active setup stays after an emission.
L1Score(enough, gate) ==
    /\ layer = 1
    /\ Total(absorptions) < MaxAbsorptions
    /\ LET now_ms == now
           setup == active_setup
       IN  IF setup = NoEvent
           THEN UNCHANGED <<active_setup, absorption_event, absorptions, discarded_expired>>
           ELSE IF L1Expired(now_ms, setup)
           THEN /\ active_setup' = NoEvent
                /\ discarded_expired' = TRUE
                /\ UNCHANGED <<absorption_event, absorptions>>
           ELSE IF enough /\ gate
           THEN /\ absorption_event' = [ts_ms |-> now_ms,
                                        source_trap_event_id |-> setup.id,
                                        source_ts_ms |-> setup.ts_ms,
                                        direction |-> EmittedDirection(setup)]
                /\ absorptions' = [absorptions EXCEPT ![setup.id] = @ + 1]
                /\ active_setup' = AfterAbsorption(setup)
                /\ UNCHANGED discarded_expired
           ELSE UNCHANGED <<active_setup, absorption_event, absorptions, discarded_expired>>
    /\ IF absorptions' # absorptions THEN CountEmitted ELSE UNCHANGED healthVars
    /\ UNCHANGED l1Others

InitL1 ==
    /\ active_setup = NoEvent
    /\ absorption_event = NotEmitted
    /\ absorptions = [i \in EventIds |-> 0]

(*------------------------------ Layer2 ----------------------------------*)
\* Layer2ThresholdConfig.min_confirmations explored (the default is 3)
MinConfirmationsChoices == {1, 3, 4}
DefaultMinConfirmations == 3
\* score = breakdown.confirmations / 5.0, kept in percent
ConfirmationSlots == 5

\* exc.__class__.__name__.upper() for the exception classes a client or the
\* detector raises here
ClassNameUpper == [c \in {"RuntimeError", "TimeoutError"} |->
                    IF c = "RuntimeError" THEN "RUNTIMEERROR" ELSE "TIMEOUTERROR"]

\* What smc_detector.detect does: it returns (choch, order_block, meta) or raises.
DetectOutcomes ==
    {[raised |-> FALSE, exc |-> "", choch |-> c, order_block |-> o] : c, o \in BOOLEAN}
    \cup {[raised |-> TRUE, exc |-> "RuntimeError", choch |-> FALSE, order_block |-> FALSE]}

\* What build_ignition_breakdown derives from the absorption event and the
\* candles: absorption_event.score >= absorption_score_min, the source trap
\* score >= trap_score_min, and _momentum_signal.
IgnitionSignals ==
    [absorption_strength : BOOLEAN, trap_strength : BOOLEAN, momentum : BOOLEAN]

IgnitionInputs == [detect : DetectOutcomes, signals : IgnitionSignals]

\* a market in which the detector returns and every confirmation agrees
QuietIgnitionInputs ==
    {i \in IgnitionInputs :
        /\ ~i.detect.raised
        /\ i.detect.choch = i.detect.order_block
        /\ i.signals.absorption_strength = i.detect.choch
        /\ i.signals.trap_strength = i.detect.choch
        /\ i.signals.momentum = i.detect.choch}

\* _absorption_consumer
L2Consume(e) ==
    /\ layer = 2
    /\ Total(deliveries) < MaxDeliveries
    /\ deliveries' = [deliveries EXCEPT ![e.id] = @ + 1]
    /\ active_absorption' = IF Accepted(e) THEN Stored(e) ELSE active_absorption
    /\ UNCHANGED <<candles, enable_smartmoneyconcepts, min_confirmations,
                   last_candle_error, last_smc_error, l2_cycle, l2_decision, ignitions,
                   pre_pump_event, discarded_expired>>
    /\ UNCHANGED healthVars
    /\ UNCHANGED l2Others

\* _candle_poller stores a fetched window: state.candles = candles,
\* state.last_candle_error = None
L2CandlesLoaded ==
    /\ layer = 2
    /\ candles' = TRUE
    /\ last_candle_error' = ""
    /\ UNCHANGED <<active_absorption, enable_smartmoneyconcepts, min_confirmations,
                   last_smc_error, l2_cycle, l2_decision, deliveries,
                   ignitions, pre_pump_event, discarded_expired>>
    /\ UNCHANGED healthVars
    /\ UNCHANGED l2Others

\* _candle_poller, fetch_candles raised:
\* state.last_candle_error = f"CANDLE_{exc.__class__.__name__.upper()}"
L2CandlesFailed(exc) ==
    /\ layer = 2
    /\ last_candle_error' = "CANDLE_" \o ClassNameUpper[exc]
    /\ UNCHANGED <<active_absorption, candles, enable_smartmoneyconcepts,
                   min_confirmations, last_smc_error, l2_cycle, l2_decision, deliveries,
                   ignitions, pre_pump_event, discarded_expired>>
    /\ UNCHANGED healthVars
    /\ UNCHANGED l2Others

\* if (now_ms - absorption.ts_ms) > config.setup_ttl_ms:
L2Expired(now_ms, absorption) == (now_ms - absorption.ts_ms) > TtlMs

\* mutant: the absorption stays active after it ignited
AfterIgnitionKeep(current) == current

\* state.active_absorption = None   ("Prevent repeated emissions for the same
\* absorption setup"); whatever the consumer stored meanwhile is cleared too
AfterIgnition(current) == NoEvent

\* the number of True among a tuple of flags: sum([...])
CountTrue(flags) == Cardinality({k \in DOMAIN flags : flags[k]})

\* mutant: the structural flags are not counted
BuildIgnitionBreakdownNoStructure(choch_signal, order_block_signal, signals) ==
    [choch |-> choch_signal,
     order_block |-> order_block_signal,
     absorption_strength |-> signals.absorption_strength,
     trap_strength |-> signals.trap_strength,
     momentum |-> signals.momentum,
     confirmations |-> CountTrue(<<signals.absorption_strength,
                                   signals.trap_strength, signals.momentum>>)]

\* build_ignition_breakdown
BuildIgnitionBreakdown(choch_signal, order_block_signal, signals) ==
    [choch |-> choch_signal,
     order_block |-> order_block_signal,
     absorption_strength |-> signals.absorption_strength,
     trap_strength |-> signals.trap_strength,
     momentum |-> signals.momentum,
     confirmations |-> CountTrue(<<choch_signal, order_block_signal,
                                   signals.absorption_strength,
                                   signals.trap_strength, signals.momentum>>)]

\* mutant: a raising detector leaves the cycle undegraded
SmcFailureSilent(error_before, detect) ==
    [raised |-> detect.raised,
     choch_signal |-> ~detect.raised /\ detect.choch,
     order_block_signal |-> ~detect.raised /\ detect.order_block,
     last_smc_error |-> "",
     degraded_reasons |-> <<>>]

\* The try/except around smc_detector.detect: a return gives the two flags
\* and clears last_smc_error; a raise leaves both flags False, sets
\* last_smc_error = f"SMC_{exc.__class__.__name__.upper()}" and appends it to
\* the reasons.
SmcResult(error_before, detect) ==
    IF detect.raised
    THEN [raised |-> TRUE,
          choch_signal |-> FALSE,
          order_block_signal |-> FALSE,
          last_smc_error |-> "SMC_" \o ClassNameUpper[detect.exc],
          degraded_reasons |-> <<"SMC_" \o ClassNameUpper[detect.exc]>>]
    ELSE [raised |-> FALSE,
          choch_signal |-> detect.choch,
          order_block_signal |-> detect.order_block,
          last_smc_error |-> "",
          degraded_reasons |-> <<>>]

\* the detector is switched off: both flags stay False, last_smc_error is not touched
SmcSkipped(error_before) ==
    [raised |-> FALSE, choch_signal |-> FALSE, order_block_signal |-> FALSE,
     last_smc_error |-> error_before, degraded_reasons |-> <<>>]

NoDecision == [made |-> FALSE]

\* The end of a Layer2 scoring cycle, from the detector's result on:
\* if state.last_smc_error: ... append; build_ignition_breakdown;
\* passed = breakdown.confirmations >= min_confirmations; the emission.
\* reasons_before: the reasons collected before the detector was called.
L2Decide(now_ms, absorption, reasons_before, smc, signals) ==
    LET reasons_smc == reasons_before \o smc.degraded_reasons
        degraded_reasons == IF smc.last_smc_error # ""
                            THEN Append(reasons_smc, smc.last_smc_error)
                            ELSE reasons_smc
        degraded == degraded_reasons # <<>>
        breakdown == BuildIgnitionBreakdown(smc.choch_signal, smc.order_block_signal,
                                            signals)
        passed == breakdown.confirmations >= min_confirmations
    IN  /\ last_smc_error' = smc.last_smc_error
        /\ IF passed
           THEN /\ pre_pump_event' =
                        [ts_ms |-> now_ms,
                         source_absorption_event_id |-> absorption.id,
                         source_trap_event_id |-> absorption.source_trap_event_id,
                         source_ts_ms |-> absorption.ts_ms,
                         direction |-> EmittedDirection(absorption),
                         score |-> (breakdown.confirmations * Percent) \div ConfirmationSlots,
                         components |-> breakdown,
                         degraded |-> degraded,
                         degraded_reasons |-> degraded_reasons]
                /\ ignitions' = [ignitions EXCEPT ![absorption.id] = @ + 1]
                /\ active_absorption' = AfterIgnition(active_absorption)
                /\ MarkEmitted(now_ms)
           ELSE UNCHANGED <<pre_pump_event, ignitions, active_absorption, healthVars>>
        /\ l2_decision' = [made |-> TRUE,
                           detect_raised |-> smc.raised,
                           confirmations |-> breakdown.confirmations,
                           passed |-> passed,
                           emitted |-> ignitions' # ignitions]

IdleCycle == [pc |-> "idle", now_ms |-> 0, absorption |-> NoEvent,
              degraded_reasons |-> <<>>]

\* if state.last_candle_error: degraded = True; degraded_reasons.append(...)
CandleReasons(error) == IF error # "" THEN <<error>> ELSE <<>>

\* A Layer2 scoring cycle up to its first suspension point: the await of
\* smc_detector.detect when the detector is enabled, else the closing sleep.
L2ScoreBegin(signals) ==
    /\ layer = 2
    /\ Total(ignitions) < MaxDeliveries
    /\ l2_cycle.pc = "idle"
    /\ LET now_ms == now
           absorption == active_absorption
       IN  IF absorption = NoEvent \/ ~candles
           THEN UNCHANGED <<active_absorption, l2_cycle, ignitions, pre_pump_event,
                            discarded_expired, last_smc_error, l2_decision, healthVars>>
           ELSE IF L2Expired(now_ms, absorption)
           THEN /\ active_absorption' = NoEvent
                /\ discarded_expired' = TRUE
                /\ UNCHANGED <<l2_cycle, ignitions, pre_pump_event, last_smc_error,
                               l2_decision, healthVars>>
           ELSE IF enable_smartmoneyconcepts
           THEN /\ l2_cycle' = [pc |-> "detect", now_ms |-> now_ms,
                                absorption |-> absorption,
                                degraded_reasons |-> CandleReasons(last_candle_error)]
                /\ UNCHANGED <<active_absorption, ignitions, pre_pump_event,
                               discarded_expired, last_smc_error, l2_decision, healthVars>>
           ELSE /\ L2Decide(now_ms, absorption, CandleReasons(last_candle_error),
                            SmcSkipped(last_smc_error), signals)
                /\ UNCHANGED <<l2_cycle, discarded_expired>>
    /\ UNCHANGED <<candles, enable_smartmoneyconcepts, min_confirmations,
                   last_candle_error, deliveries>>
    /\ UNCHANGED l2Others

\* detect returned or raised (a failure only degrades the cycle): the cycle
\* goes on with the absorption, the candles, the reasons and the clock
\* reading it started with
L2ScoreFinish(detect, signals) ==
    /\ layer = 2
    /\ Total(ignitions) < MaxDeliveries
    /\ l2_cycle.pc = "detect"
    /\ L2Decide(l2_cycle.now_ms, l2_cycle.absorption, l2_cycle.degraded_reasons,
                SmcResult(last_smc_error, detect), signals)
    /\ l2_cycle' = IdleCycle
    /\ UNCHANGED <<candles, enable_smartmoneyconcepts, min_confirmations,
                   last_candle_error, deliveries, discarded_expired>>
    /\ UNCHANGED l2Others

InitL2 ==
    /\ active_absorption = NoEvent
    /\ candles = FALSE
    /\ last_candle_error = ""
    /\ last_smc_error = ""
    /\ l2_cycle = IdleCycle
    /\ l2_decision = NoDecision
    /\ deliveries = [i \in EventIds |-> 0]
    /\ ignitions = [i \in EventIds |-> 0]
    /\ pre_pump_event = NotEmitted

(*------------------------------ Layer3 ----------------------------------*)
\* mutant: a PrePumpEvent never expires
L3ExpiredNever(now_ms, event) == FALSE

\* if (_now_ms() - event.ts_ms) > config.pre_pump_ttl_ms: return
L3Expired(now_ms, event) == (now_ms - event.ts_ms) > TtlMs

\* mutant: a redelivered event id is not recognised
AlreadySeenNever(id, seen) == FALSE

\* if event.event_id in seen_source_event_ids: return
AlreadySeen(id, seen) == id \in seen

\* min_gap_ms = int(config.guard.min_seconds_between_entries * 1000): the
\* product is truncated to whole milliseconds
MinGapMs(gap_us) == gap_us \div 1000

\* mutant: the cooldown is never applied
InCooldownNever(now_ms, last, gap_us) == FALSE

\* if last_entry_ts_ms is not None and min_seconds_between_entries > 0:
\*     if (now_ms - last_entry_ts_ms) < min_gap_ms: return
InCooldown(now_ms, last, gap_us) ==
    /\ last # -1
    /\ gap_us > 0
    /\ (now_ms - last) < MinGapMs(gap_us)

\* while recent_entry_ts and recent_entry_ts[0] < cutoff_ms: recent_entry_ts.popleft()
RECURSIVE PruneBefore(_, _)
PruneBefore(ts, cutoff_ms) ==
    IF ts # <<>> /\ Head(ts) < cutoff_ms THEN PruneBefore(Tail(ts), cutoff_ms) ELSE ts

\* mutant: the hourly cap is never applied
AtHourlyCapNever(recent, cap) == FALSE

\* if max_entries_per_hour > 0 and len(recent_entry_ts) >= max_entries_per_hour: return
AtHourlyCap(recent, cap) == cap > 0 /\ Len(recent) >= cap

IdleCall == [pc |-> "idle", event |-> NoEvent, ttl_now_ms |-> 0]

\* where a call of _process_event ended: "seen", "cooldown", "rate_limit"
\* (the three returns after the TTL filter), "emitted" or "raised" (the try
\* block), with the number of ExecutionEvents emitted before the call and
\* whether the signal notification failed in it
Return(how, notify_failed) ==
    [how |-> how, pre_executions |-> Len(executions), notify_failed |-> notify_failed]

NoReturn == [how |-> "none", pre_executions |-> 0, notify_failed |-> FALSE]

\* _consume_loop hands an event to _process_event, which runs without
\* suspending up to its try block: the filters (not passed, another symbol,
\* expired, already seen), then now_ms = _now_ms(), the cooldown test, the
\* pruning of recent_entry_ts and the hourly cap.  An event that passes all of
\* them goes on to planning and orders.
L3Receive(e) ==
    /\ layer = 3
    /\ l3_call.pc = "idle"
    /\ Len(executions) + l3_errors < MaxExecutions
    /\ LET now_ms == now
           pruned == PruneBefore(recent_entry_ts, now_ms - HourMs)
       IN  IF ~Accepted(e)
           THEN UNCHANGED <<l3_call, recent_entry_ts, discarded_expired, l3_return>>
           ELSE IF L3Expired(now, e)
           THEN /\ discarded_expired' = TRUE
                /\ UNCHANGED <<l3_call, recent_entry_ts, l3_return>>
           ELSE IF AlreadySeen(e.id, seen_source_event_ids)
           THEN /\ l3_return' = Return("seen", FALSE)
                /\ UNCHANGED <<l3_call, recent_entry_ts, discarded_expired>>
           ELSE IF InCooldown(now_ms, last_entry_ts_ms, min_entry_gap_us)
           THEN /\ l3_return' = Return("cooldown", FALSE)
                /\ UNCHANGED <<l3_call, recent_entry_ts, discarded_expired>>
           ELSE /\ recent_entry_ts' = pruned
                /\ IF AtHourlyCap(pruned, max_entries_per_hour)
                   THEN /\ l3_call' = IdleCall
                        /\ l3_return' = Return("rate_limit", FALSE)
                   ELSE /\ l3_call' = [pc |-> "execute", event |-> Stored(e),
                                       ttl_now_ms |-> now]
                        /\ l3_return' = NoReturn
                /\ UNCHANGED discarded_expired
    /\ UNCHANGED <<min_entry_gap_us, max_entries_per_hour, seen_fifo_maxlen,
                   last_entry_ts_ms,
                   seen_source_event_ids, seen_source_fifo, executions,
                   execution_event, l3_errors, live_mode, telegram_enabled,
                   order_calls, error_alerts>>
    /\ UNCHANGED healthVars
    /\ UNCHANGED l3Others

\* mutant: the oldest id leaves the FIFO but stays in the set
SeenAfterEvictKeep(seen, fifo) == seen

\* if len(seen_source_fifo) == seen_source_fifo.maxlen and seen_source_fifo:
\*     seen_source_event_ids.discard(seen_source_fifo.popleft())
SeenAfterEvict(seen, fifo) ==
    IF Len(fifo) = seen_fifo_maxlen /\ fifo # <<>> THEN seen \ {Head(fifo)} ELSE seen

FifoAfterEvict(fifo) ==
    IF Len(fifo) = seen_fifo_maxlen /\ fifo # <<>> THEN Tail(fifo) ELSE fifo

\* mutant: the exit orders are placed on the entry's side
SideFromDirectionSame(direction) ==
    IF direction = "LONG" THEN [entry |-> "BUY", exit |-> "BUY"]
    ELSE [entry |-> "SELL", exit |-> "SELL"]

\* _side_from_direction: anything but "LONG" is entered with a SELL
SideFromDirection(direction) ==
    IF direction = "LONG" THEN [entry |-> "BUY", exit |-> "SELL"]
    ELSE [entry |-> "SELL", exit |-> "BUY"]

\* The futures_create_order calls of _place_execution_orders, in the order
\* of its awaits; the entry call carries no reduceOnly and no stopPrice.
OrderPlan(direction) ==
    LET side == SideFromDirection(direction)
    IN  << [type |-> "MARKET", side |-> side.entry, reduceOnly |-> FALSE,
            stopPrice |-> "none"],
           [type |-> "STOP_MARKET", side |-> side.exit, reduceOnly |-> TRUE,
            stopPrice |-> "plan.sl"],
           [type |-> "TAKE_PROFIT_MARKET", side |-> side.exit, reduceOnly |-> TRUE,
            stopPrice |-> "plan.tp1"],
           [type |-> "TAKE_PROFIT_MARKET", side |-> side.exit, reduceOnly |-> TRUE,
            stopPrice |-> "plan.tp2"] >>

\* The calls the execution client has received when _place_execution_orders
\* ends after `made` of them: each call is awaited before the next is made.
OrdersPlaced(direction, made) == SubSeq(OrderPlan(direction), 1, made)

\* mutant: a failed notification leaves the event undegraded
NotifyResultSilent(enabled, send_ok) == [degraded |-> FALSE, degrade_reason |-> "none"]

\* the signal notification: attempted when a notifier is configured; a raise
\* is caught and recorded as degraded with reason TELEGRAM_<EXCEPTION>
NotifyResult(enabled, send_ok) ==
    IF enabled /\ ~send_ok
    THEN [degraded |-> TRUE, degrade_reason |-> "TELEGRAM_EXCEPTION"]
    ELSE [degraded |-> FALSE, degrade_reason |-> "none"]

\* mutant: the except branch sends no error notification
ErrorAlertsNone(n, enabled) == n

\* the except branch: with a notifier configured, send_message is awaited
\* inside contextlib.suppress(Exception)
ErrorAlerts(n, enabled) == IF enabled THEN n + 1 ELSE n

\* The try block of _process_event.  made: the futures_create_order calls the
\* client received (live mode); raised: planning, order placement or the
\* building of the ExecutionEvent raised; send_ok: send_message returned.
\* Without a raise the event is stamped with a fresh clock reading, emitted
\* and recorded; with one, the failure is counted, an error notification is
\* attempted and nothing is emitted.
L3Execute(made, raised, send_ok) ==
    /\ layer = 3
    /\ l3_call.pc = "execute"
    /\ IF live_mode THEN made < Len(OrderPlan("LONG")) => raised ELSE made = 0
    /\ order_calls' = OrdersPlaced(l3_call.event.direction, made)
    /\ IF ~raised
       THEN LET ts_ms == now
                notify == NotifyResult(telegram_enabled, send_ok)
            IN  /\ executions' = Append(executions,
                        [ts_ms |-> ts_ms,
                         source_pre_pump_event_id |-> l3_call.event.id])
                /\ execution_event' = [ts_ms |-> ts_ms,
                                       source_pre_pump_event_id |-> l3_call.event.id,
                                       source_ts_ms |-> l3_call.event.ts_ms,
                                       ttl_now_ms |-> l3_call.ttl_now_ms,
                                       direction |-> EmittedDirection(l3_call.event),
                                       degraded |-> notify.degraded,
                                       degrade_reason |-> notify.degrade_reason]
                /\ last_entry_ts_ms' = ts_ms
                /\ recent_entry_ts' = Append(recent_entry_ts, ts_ms)
                /\ seen_source_event_ids' =
                        SeenAfterEvict(seen_source_event_ids, seen_source_fifo)
                            \cup {l3_call.event.id}
                /\ seen_source_fifo' =
                        Append(FifoAfterEvict(seen_source_fifo), l3_call.event.id)
                /\ l3_return' = Return("emitted", telegram_enabled /\ ~send_ok)
                /\ MarkEmitted(ts_ms)
                /\ UNCHANGED <<l3_errors, error_alerts>>
       ELSE /\ l3_errors' = l3_errors + 1
            /\ error_alerts' = ErrorAlerts(error_alerts, telegram_enabled)
            /\ l3_return' = Return("raised", FALSE)
            /\ UNCHANGED <<executions, execution_event, last_entry_ts_ms,
                           recent_entry_ts, seen_source_event_ids, seen_source_fifo,
                           healthVars>>
    /\ l3_call' = IdleCall
    /\ UNCHANGED <<min_entry_gap_us, max_entries_per_hour, seen_fifo_maxlen,
                   discarded_expired,
                   live_mode, telegram_enabled>>
    /\ UNCHANGED l3Others

\* the state of run_layer3 before its first event, but for the capacity of
\* the seen-id FIFO
InitL3State ==
    /\ l3_call = IdleCall
    /\ last_entry_ts_ms = -1
    /\ recent_entry_ts = <<>>
    /\ seen_source_event_ids = {}
    /\ seen_source_fifo = <<>>
    /\ executions = <<>>
    /\ execution_event = NotEmitted
    /\ l3_errors = 0
    /\ l3_return = NoReturn
    /\ order_calls = <<>>
    /\ error_alerts = 0

\* seen_source_fifo: deque[str] = deque(maxlen=4000)
InitL3 ==
    /\ InitL3State
    /\ seen_fifo_maxlen = SeenFifoMaxlen

(***************************************************************************)
(* Layer0: snapshot pollers and scoring loop (SpecLayer0, SpecGate).       *)
(* Component scores, thresholds and regime scores are in percent; weighted *)
(* scores and the score thresholds they are compared with are in units of  *)
(* 1e-4 (weight percent times component percent).                          *)
(***************************************************************************)
\* scoring cycles in one behaviour
MaxCycles == 2
\* OI observations one exchange records in one behaviour
MaxSamples == 2

\* int(self.warmup_minutes * 60_000)
MsPerMinute == 60000
\* _record_oi: max_keep_ms = 3 * 60 * 60_000
OiKeepMs == 10800000
\* SignalWeights defaults, in percent
WeightLiquidation == 40
WeightFundingOi == 30
WeightOiDivergence == 30
\* ThresholdConfig.component_threshold, in percent
ComponentThreshold == 50
\* RegimeFilterConfig.min_score, in percent
RegimeMinScore == 55
\* AdaptiveGateConfig quantile, floor and ceiling, in percent
AdaptiveQuantile == 75
AdaptiveFloor == 70
AdaptiveCeiling == 90
\* compute_regime_scores: 0.6 * trend + 0.4 * (compression * volatility_gate)
RegimeTrendWeight == 60
RegimeGateWeight == 40

\* the enabled exchanges (enable_binance, enable_bybit)
ConfiguredExchanges == {"binance", "bybit"}

WarmupMinutesChoices == {0, 1}
StalenessSecondsChoices == {1}
ScoreThresholdChoices == {55, 70, 95}
WindowCyclesChoices == {0, 2}
MinSamplesChoices == {1, 2}

Max(a, b) == IF a >= b THEN a ELSE b

\* clamp(value, lower, upper) = max(lower, min(upper, value))
Clamp(value, lower, upper) == Max(lower, Min(upper, value))

\* name.upper()
Upper == [name \in ConfiguredExchanges |->
            IF name = "binance" THEN "BINANCE" ELSE "BYBIT"]

\* _error_reason for an exception of class RuntimeError whose text has no "403"
ErrorReason(exchange) == Upper[exchange] \o "_RUNTIMEERROR"

NoSnapshot == [present |-> FALSE, ts_ms |-> 0, mark_price |-> 0]

\* _ExchangeState(): no snapshot, an empty OI history, no error
NewExchangeState == [snapshot |-> NoSnapshot, oi_history |-> <<>>, last_error |-> FALSE]

\* _record_oi: append the observation, then drop from the left what is older
\* than ts_ms - max_keep_ms.  An observation is kept as its ts_ms; its
\* open_interest is positive.
RecordOi(oi_history, ts_ms) == PruneBefore(Append(oi_history, ts_ms), ts_ms - OiKeepMs)

\* _snapshot_poller, one iteration: a fetched snapshot replaces the stored
\* one and clears last_error, its open interest (when present) is recorded;
\* a failed fetch only sets last_error.
L0Poll(name, ok, has_oi, price) ==
    /\ layer = 0
    /\ (ok /\ has_oi) => Len(states[name].oi_history) < MaxSamples
    /\ states' = [states EXCEPT ![name] =
            IF ok
            THEN [snapshot |-> [present |-> TRUE, ts_ms |-> now, mark_price |-> price],
                  oi_history |-> IF has_oi THEN RecordOi(states[name].oi_history, now)
                                 ELSE states[name].oi_history,
                  last_error |-> FALSE]
            ELSE [states[name] EXCEPT !.last_error = TRUE]]
    /\ UNCHANGED <<layer0_config, score_history, cycles, l0_cycle, trap_event>>
    /\ UNCHANGED healthVars
    /\ UNCHANGED l0Others

\* has_warmup_window: True as soon as one history is non-empty and its oldest
\* observation is at least warmup_ms old; False for an empty map.
HasWarmupWindow(history_map, now_ms, warmup_ms) ==
    /\ DOMAIN history_map # {}
    /\ \E name \in DOMAIN history_map :
        /\ history_map[name] # <<>>
        /\ now_ms - Head(history_map[name]) >= warmup_ms

\* compute_oi_pct_change returns a number: at least 2 observations (their
\* open interest being positive)
HasOiChange(oi_history) == Len(oi_history) >= 2

\* the mean of the mark prices of a non-empty set of snapshots
RECURSIVE SumPrices(_, _)
SumPrices(st, names) ==
    IF names = {} THEN 0
    ELSE LET n == CHOOSE x \in names : TRUE
         IN  st[n].snapshot.mark_price + SumPrices(st, names \ {n})

\* current_price: binance's mark price when binance is active and has one,
\* else the mean of the active mark prices, else 0.0
CurrentPrice(st, active) ==
    LET priced == {n \in active : st[n].snapshot.mark_price # 0}
    IN  IF "binance" \in priced THEN st["binance"].snapshot.mark_price
        ELSE IF priced # {} THEN SumPrices(st, priced) \div Cardinality(priced)
        ELSE 0

\* round() of num / den for num >= 0, den > 0: to nearest, ties to even
RoundHalfEven(num, den) ==
    LET q == num \div den
        r == num % den
    IN  IF 2 * r < den THEN q
        ELSE IF 2 * r > den THEN q + 1
        ELSE IF q % 2 = 0 THEN q ELSE q + 1

\* sorted(observed)[idx], idx counted from 0
Ranked(observed, idx) ==
    CHOOSE v \in {observed[i] : i \in DOMAIN observed} :
        /\ Cardinality({i \in DOMAIN observed : observed[i] < v}) <= idx
        /\ idx < Cardinality({i \in DOMAIN observed : observed[i] <= v})

\* mutant: the ranked score is used as it is, without the clamp
AdaptiveThresholdUnclamped(observed_scores, config, base_threshold) ==
    IF ~config.adaptive_enabled THEN base_threshold
    ELSE IF Len(observed_scores) < Max(1, config.min_samples) THEN base_threshold
    ELSE Ranked(observed_scores,
                RoundHalfEven((Len(observed_scores) - 1) * AdaptiveQuantile, Percent))

\* compute_adaptive_threshold
ComputeAdaptiveThreshold(observed_scores, config, base_threshold) ==
    IF ~config.adaptive_enabled THEN base_threshold
    ELSE IF Len(observed_scores) < Max(1, config.min_samples) THEN base_threshold
    ELSE LET quantile == Clamp(AdaptiveQuantile, 0, Percent)
             idx == RoundHalfEven((Len(observed_scores) - 1) * quantile, Percent)
             dynamic == Ranked(observed_scores, idx)
             lower == Max(base_threshold, AdaptiveFloor * Percent)
             upper == IF AdaptiveCeiling * Percent < lower THEN lower
                      ELSE AdaptiveCeiling * Percent
         IN  Clamp(dynamic, lower, upper)

\* score_history.append on a deque(maxlen = max(1, window_cycles))
AppendScore(history, score, window_cycles) ==
    LET maxlen == Max(1, window_cycles)
        all == Append(history, score)
    IN  IF Len(all) > maxlen THEN SubSeq(all, Len(all) - maxlen + 1, Len(all)) ELSE all

\* compute_regime_scores: 0.5 / 0.5 with too little price history, otherwise
\* 0.6 * trend + 0.4 * (compression * volatility_gate), the SHORT trend being
\* 1 - the LONG trend
RegimeScores(regime) ==
    IF regime.regime_state = "INSUFFICIENT_HISTORY"
    THEN [long |-> (Percent \div 2) * Percent, short |-> (Percent \div 2) * Percent]
    ELSE [long |-> Clamp(RegimeTrendWeight * regime.trend_long
                            + RegimeGateWeight * regime.gate, 0, Percent * Percent),
          short |-> Clamp(RegimeTrendWeight * Clamp(Percent - regime.trend_long, 0, Percent)
                            + RegimeGateWeight * regime.gate, 0, Percent * Percent)]

\* SignalBreakdown.for_direction
ForDirection(breakdown, direction) ==
    IF direction = "LONG"
    THEN <<breakdown.liquidation_long, breakdown.funding_oi_long, breakdown.oi_divergence>>
    ELSE <<breakdown.liquidation_short, breakdown.funding_oi_short, breakdown.oi_divergence>>

\* compute_directional_score
ComputeDirectionalScore(breakdown, direction) ==
    LET c == ForDirection(breakdown, direction)
    IN  WeightLiquidation * c[1] + WeightFundingOi * c[2] + WeightOiDivergence * c[3]

\* passes_gate, with score_threshold_override given
PassesGate(breakdown, direction, score, active_threshold) ==
    IF score < active_threshold THEN FALSE
    ELSE LET components == ForDirection(breakdown, direction)
             passing_components ==
                Cardinality({k \in 1..3 : components[k] >= ComponentThreshold})
         IN  passing_components >= 2

\* mutant: a tie goes to SHORT
PrimaryDirectionShortOnTie(short_pass, score_long, score_short) ==
    IF short_pass /\ score_short >= score_long THEN "SHORT" ELSE "LONG"

\* lines 349-356: LONG unless SHORT passed with the strictly higher score
PrimaryDirection(short_pass, score_long, score_short) ==
    IF short_pass /\ score_short > score_long THEN "SHORT" ELSE "LONG"

\* mutant: too few OI changes for the divergence do not degrade
IsDegradedMissingOnly(missing_exchanges, oi_changes) == missing_exchanges # {}

\* degraded = bool(missing_exchanges), then True if len(oi_changes_pct) < 2
IsDegraded(missing_exchanges, oi_changes) ==
    missing_exchanges # {} \/ Cardinality(oi_changes) < 2

\* What a market looks like to one scoring cycle: the liquidation proximity
\* scores of the book, the funding/OI scores, the OI-divergence score that
\* two or more OI changes give, and the regime inputs.
LiqChoices == {<<0, 0>>, <<100, 60>>, <<60, 100>>}
FundingOiChoices == {<<35, 65>>, <<100, 35>>}
DivergenceChoices == {40, 100}
RegimeChoices ==
    {[regime_state |-> "INSUFFICIENT_HISTORY", trend_long |-> 50, gate |-> 50],
     [regime_state |-> "NORMAL", trend_long |-> 0, gate |-> 100],
     [regime_state |-> "NORMAL", trend_long |-> 100, gate |-> 100],
     [regime_state |-> "NORMAL", trend_long |-> 50, gate |-> 100]}

\* a market in which nothing is liquidated and the funding/OI and divergence
\* scores are full for both directions: LONG and SHORT score the same
TiedMarkets ==
    [liq : {<<0, 0>>}, funding_oi : {<<100, 100>>},
     oi_divergence : {100}, regime : RegimeChoices]

Markets ==
    [liq : LiqChoices, funding_oi : FundingOiChoices,
     oi_divergence : DivergenceChoices, regime : RegimeChoices]
    \cup TiedMarkets

\* What one fetch_snapshot call gives: an exception, or a snapshot with open
\* interest and mark price.
PollOutcomes ==
    {[ok |-> FALSE, has_oi |-> FALSE, price |-> 0],
     [ok |-> TRUE, has_oi |-> TRUE, price |-> 100]}

\* a market in which LONG is strong, or nothing is, and the regime is neutral
QuietMarkets ==
    {m \in Markets :
        /\ m.liq \in {<<0, 0>>, <<100, 60>>}
        /\ m.funding_oi = <<100, 35>>
        /\ m.oi_divergence = 100
        /\ m.regime = [regime_state |-> "NORMAL", trend_long |-> 50, gate |-> 100]}

NoCycle == [outcome |-> "none", n |-> 0]
NoTrapSetup == [event_id |-> 0]

\* _scoring_loop, one iteration, from cycle_start_ms = _now_ms() to the
\* cadence sleep.
L0ScoringCycle(m) ==
    /\ layer = 0
    /\ cycles < MaxCycles
    /\ cycles' = cycles + 1
    /\ LET cycle_start_ms == now
           config == layer0_config
           names == DOMAIN states
           cold == {name \in names :
                        \/ states[name].oi_history = <<>>
                        \/ cycle_start_ms - Head(states[name].oi_history) < config.warmup_ms}
       IN  IF ~HasWarmupWindow([name \in names |-> states[name].oi_history],
                               cycle_start_ms, config.warmup_ms)
           THEN /\ l0_cycle' = [outcome |-> "warmup", n |-> cycles + 1, cold |-> cold]
                /\ UNCHANGED <<score_history, trap_event>>
           ELSE
           LET no_snapshot == {name \in names : ~states[name].snapshot.present}
               stale_names == {name \in names \ no_snapshot :
                    (cycle_start_ms - states[name].snapshot.ts_ms) > config.staleness_ms}
               active_snapshots == names \ (no_snapshot \cup stale_names)
               oi_changes_pct == {name \in active_snapshots :
                                        HasOiChange(states[name].oi_history)}
               missing_exchanges == ConfiguredExchanges \ active_snapshots
               degraded_reasons ==
                    {Upper[name] \o "_NO_SNAPSHOT" : name \in no_snapshot}
                    \cup {Upper[name] \o "_STALE" : name \in stale_names}
                    \cup {ErrorReason(name) :
                            name \in {x \in no_snapshot \cup stale_names : states[x].last_error}}
                    \cup {Upper[name] \o "_INACTIVE" : name \in missing_exchanges}
                    \cup (IF Cardinality(oi_changes_pct) < 2
                          THEN {"INSUFFICIENT_EXCHANGES_FOR_DIVERGENCE"} ELSE {})
               current_price == CurrentPrice(states, active_snapshots)
           IN  IF current_price <= 0
               THEN /\ l0_cycle' = [outcome |-> "no_price", n |-> cycles + 1, cold |-> cold,
                                    missing_exchanges |-> missing_exchanges]
                    /\ UNCHANGED <<score_history, trap_event>>
               ELSE
               LET regime == RegimeScores(m.regime)
                   adaptive_threshold ==
                        ComputeAdaptiveThreshold(score_history, config,
                                                 config.score_threshold * Percent)
                   degraded == IsDegraded(missing_exchanges, oi_changes_pct)
                   breakdown ==
                        [liquidation_long |-> m.liq[1],
                         liquidation_short |-> m.liq[2],
                         funding_oi_long |-> m.funding_oi[1],
                         funding_oi_short |-> m.funding_oi[2],
                         oi_divergence |-> IF Cardinality(oi_changes_pct) < 2 THEN 0
                                           ELSE m.oi_divergence]
                   score_long == ComputeDirectionalScore(breakdown, "LONG")
                   score_short == ComputeDirectionalScore(breakdown, "SHORT")
                   gate_long == PassesGate(breakdown, "LONG", score_long, adaptive_threshold)
                   gate_short == PassesGate(breakdown, "SHORT", score_short, adaptive_threshold)
                   long_pass == gate_long /\ ~(config.regime_enabled
                                                /\ regime.long < RegimeMinScore * Percent)
                   short_pass == gate_short /\ ~(config.regime_enabled
                                                /\ regime.short < RegimeMinScore * Percent)
                   direction == PrimaryDirection(short_pass, score_long, score_short)
                   score == IF direction = "SHORT" THEN score_short ELSE score_long
               IN  /\ l0_cycle' =
                        [outcome |-> "scored", n |-> cycles + 1, cold |-> cold,
                         missing_exchanges |-> missing_exchanges,
                         no_snapshot |-> no_snapshot, stale_names |-> stale_names,
                         oi_changes |-> Cardinality(oi_changes_pct),
                         breakdown |-> breakdown,
                         score_long |-> score_long, score_short |-> score_short,
                         active_threshold |-> adaptive_threshold,
                         regime |-> regime,
                         long_pass |-> long_pass, short_pass |-> short_pass,
                         emitted |-> long_pass \/ short_pass]
                   /\ trap_event' =
                        IF long_pass \/ short_pass
                        THEN [event_id |-> cycles + 1, ts_ms |-> cycle_start_ms,
                              direction |-> direction, score |-> score,
                              components |-> breakdown, degraded |-> degraded,
                              degraded_reasons |-> degraded_reasons]
                        ELSE trap_event
                   /\ score_history' = AppendScore(score_history, Max(score_long, score_short),
                                                   config.window_cycles)
    /\ UNCHANGED <<layer0_config, states>>
    /\ IF trap_event' # trap_event THEN MarkEmitted(now) ELSE UNCHANGED healthVars
    /\ UNCHANGED l0Others

\* the state of Layer0 when run_layer0 starts its tasks
InitL0 ==
    /\ states = [name \in ConfiguredExchanges |-> NewExchangeState]
    /\ score_history = <<>>
    /\ cycles = 0
    /\ l0_cycle = NoCycle
    /\ trap_event = NoTrapSetup

Layer0Configs ==
    [warmup_ms : {w * MsPerMinute : w \in WarmupMinutesChoices},
     staleness_ms : {x * MsPerSecond : x \in StalenessSecondsChoices},
     score_threshold : ScoreThresholdChoices,
     regime_enabled : BOOLEAN,
     adaptive_enabled : BOOLEAN,
     window_cycles : WindowCyclesChoices,
     min_samples : MinSamplesChoices]

DefaultScoreThreshold == 70

\* Layer0 with its pollers: the default gate, the warmup window on or off
InitLayer0 ==
    /\ layer = 0
    /\ InitL0
    /\ layer0_config \in {c \in Layer0Configs :
            /\ c.score_threshold = DefaultScoreThreshold
            /\ c.regime_enabled
            /\ c.adaptive_enabled
            /\ c.window_cycles = 2
            /\ c.min_samples = 1}

\* Both exchanges have been polled twice at start-up and no warmup is asked:
\* every cycle scores, under each gate configuration (a history of one
\* entry and a static threshold above the ceiling each in one place).
InitGate ==
    /\ layer = 0
    /\ states = [name \in ConfiguredExchanges |->
                    [snapshot |-> [present |-> TRUE, ts_ms |-> 0, mark_price |-> 100],
                     oi_history |-> <<0, 0>>, last_error |-> FALSE]]
    /\ score_history = <<>>
    /\ cycles = 0
    /\ l0_cycle = NoCycle
    /\ trap_event = NoTrapSetup
    /\ layer0_config \in {c \in Layer0Configs :
            /\ c.warmup_ms = 0
            /\ c.window_cycles = 0 => (c.min_samples = 1 /\ c.score_threshold = 55)
            /\ c.score_threshold = 95 => (c.adaptive_enabled /\ ~c.regime_enabled)}

ParkedLayer0 ==
    /\ InitL0
    /\ layer0_config \in {c \in Layer0Configs :
            /\ c.warmup_ms = 0
            /\ c.score_threshold = DefaultScoreThreshold
            /\ c.regime_enabled
            /\ c.adaptive_enabled
            /\ c.window_cycles = 2
            /\ c.min_samples = 1}

NextLayer0 ==
    \/ Tick
    \/ \E name \in ConfiguredExchanges, o \in PollOutcomes :
            L0Poll(name, o.ok, o.has_oi, o.price)
    \/ \E m \in QuietMarkets : L0ScoringCycle(m)

NextGate ==
    \E m \in Markets : L0ScoringCycle(m)

(***************************************************************************)
(* Layer3's planner: build_execution_plan (SpecPlanner).  Prices are in    *)
(* millionths (1.0 is PriceUnit); a level that the event does not carry is *)
(* None.  The inputs are multiples of a thousandth, so every product below *)
(* is exact.                                                               *)
(***************************************************************************)
\* units per 1.0
PriceUnit == 1000000
\* round(x, 2): a hundredth, in units
Cent == 10000
\* a thousandth, in units: the finest step of the levels explored
Mill == 1000
\* entry_price * 0.0005, as entry_price * 5 / 10000
RiskFloorPer10k == 5
\* risk * 0.8, in tenths
MinTp1Tenths == 8
\* Layer3RiskConfig defaults: default_sl_buffer_pct = 0.0044, in 1/10000,
\* tp1_r_multiple = 1.5 and tp2_r_multiple = 2.5, in tenths
DefaultSlBufferPer10k == 44
DefaultTp1Tenths == 15
DefaultTp2Tenths == 25

None == -1

\* entry prices explored: 0.5, 2.0 and 120.0
EntryPriceChoices == {PriceUnit \div 2, 2 * PriceUnit, 120 * PriceUnit}

\* a level of the event's raw payload: absent, or at a thousandth or a tenth
\* of the entry price (and a thousandth) below or above entry, or at entry
LevelChoices(entry_price) ==
    {None} \cup {entry_price + o :
                    o \in {-(entry_price \div 10) - Mill, -Mill, 0, Mill,
                           (entry_price \div 10) + Mill}}

\* risk configurations: the defaults, and multiples below the 0.8 R floor
RiskConfigs ==
    {[default_sl_buffer_per10k |-> DefaultSlBufferPer10k,
      tp1_tenths |-> DefaultTp1Tenths, tp2_tenths |-> DefaultTp2Tenths],
     [default_sl_buffer_per10k |-> DefaultSlBufferPer10k,
      tp1_tenths |-> 5, tp2_tenths |-> 7]}

PlanRequests ==
    UNION {[direction : {"LONG", "SHORT"}, entry_price : {e},
            zone_low : LevelChoices(e), zone_high : LevelChoices(e),
            ob_above : LevelChoices(e), ob_below : LevelChoices(e),
            risk_config : RiskConfigs] : e \in EntryPriceChoices}

\* round(x, 2) for x >= 0.  No level computed from the inputs explored lies
\* half-way between two hundredths.
Round2(x) == RoundHalfEven(x, Cent) * Cent

\* mutant: a swept zone on the wrong side of entry is used all the same
StopLossAnyZone(direction, entry_price, zone_low, zone_high, buffer_per10k) ==
    IF direction = "LONG"
    THEN IF zone_low # None THEN zone_low
         ELSE entry_price - (entry_price \div 10000) * buffer_per10k
    ELSE IF zone_high # None THEN zone_high
         ELSE entry_price + (entry_price \div 10000) * buffer_per10k

\* sl = zone_low if zone_low is not None and zone_low < entry_price
\*      else entry_price * (1 - default_sl_buffer_pct), and its mirror
StopLoss(direction, entry_price, zone_low, zone_high, buffer_per10k) ==
    IF direction = "LONG"
    THEN IF zone_low # None /\ zone_low < entry_price THEN zone_low
         ELSE entry_price - (entry_price \div 10000) * buffer_per10k
    ELSE IF zone_high # None /\ zone_high > entry_price THEN zone_high
         ELSE entry_price + (entry_price \div 10000) * buffer_per10k

\* build_execution_plan, lines 74-111: the levels before rounding (raw) and
\* the ExecutionPlan's entry, sl, tp1 and tp2
BuildExecutionPlan(r) ==
    LET entry_price == r.entry_price
        sl == StopLoss(r.direction, entry_price, r.zone_low, r.zone_high,
                       r.risk_config.default_sl_buffer_per10k)
        floor == (entry_price \div 10000) * RiskFloorPer10k
        risk == IF r.direction = "LONG" THEN Max(entry_price - sl, floor)
                ELSE Max(sl - entry_price, floor)
        tp1_r == (r.risk_config.tp1_tenths * risk) \div 10
        tp2_r == (r.risk_config.tp2_tenths * risk) \div 10
        tp1_min == (MinTp1Tenths * risk) \div 10
        tp2 == IF r.direction = "LONG" THEN entry_price + tp2_r ELSE entry_price - tp2_r
        tp1_level == IF r.direction = "LONG"
                     THEN IF r.ob_above # None /\ r.ob_above > entry_price
                          THEN r.ob_above ELSE entry_price + tp1_r
                     ELSE IF r.ob_below # None /\ r.ob_below < entry_price
                          THEN r.ob_below ELSE entry_price - tp1_r
        tp1_far == IF r.direction = "LONG" THEN Max(tp1_level, entry_price + tp1_min)
                   ELSE Min(tp1_level, entry_price - tp1_min)
        tp1 == IF r.direction = "LONG"
               THEN IF tp1_far >= tp2 THEN entry_price + tp1_r ELSE tp1_far
               ELSE IF tp1_far <= tp2 THEN entry_price - tp1_r ELSE tp1_far
    IN  [built |-> TRUE,
         raw |-> [entry |-> entry_price, sl |-> sl, tp1 |-> tp1, tp2 |-> tp2],
         entry |-> Round2(entry_price),
         sl |-> Round2(sl),
         tp1 |-> Round2(tp1),
         tp2 |-> Round2(tp2)]

NoPlanRequest == [direction |-> "NONE"]
NoPlan == [built |-> FALSE]

ParkedPlanner ==
    /\ plan_request = NoPlanRequest
    /\ plan = NoPlan

\* Layer3 reaches its try block with an event and an entry price
InitPlanner ==
    /\ plan_request \in PlanRequests
    /\ plan = NoPlan

\* plan = build_execution_plan(event, entry_price=..., quantity=..., risk_config=...)
BuildPlan ==
    /\ plan_request # NoPlanRequest
    /\ ~plan.built
    /\ plan' = BuildExecutionPlan(plan_request)
    /\ UNCHANGED plan_request
    /\ UNCHANGED plannerOthers

NextPlanner == BuildPlan

(***************************************************************************)
(* Layer0's LiquidationBook (SpecBook).  Timestamps are in milliseconds and *)
(* prices in quote units.  A decay is in thousandths, so a bucket's decayed *)
(* notional is in thousandths of the notional unit; the base of a score is  *)
(* in thousandths, its distance factor in millionths and the score in       *)
(* units of 1e-9; a distance is in units of 1e-4 (0.01 is 100).             *)
(***************************************************************************)
\* number of liquidations the book holds in one behaviour
MaxBookEvents == 2

\* Layer0Config.cluster_window_minutes, cluster_bin_size, cluster_decay_minutes
WindowMinutes == 90
BinSize == 100
DecayMinutes == 45
WindowMs == WindowMinutes * MsPerMinute
DecayMs == DecayMinutes * MsPerMinute

BaseUnit == 1000
FactorUnit == 1000000
ScoreUnit == BaseUnit * FactorUnit
DistanceUnit == 10000

\* the mark price the cycles score against, and the liquidations the streams
\* deliver: two bins at and above the price, one below, one far above; a
\* timestamp that is outside the window at the later scoring time, one on
\* its edge and one inside it
BookPrice == 10000
LiquidationPrices == {9880, 10020, 10120, 50000}
LiquidationTimes == {0, 1, WindowMs + 1}
ScoringTimes == {WindowMs, WindowMs + 1}
Liquidations ==
    [liquidated_side : {"SHORT"}, price : LiquidationPrices,
     notional : {1}, ts_ms : LiquidationTimes]
    \cup [liquidated_side : {"LONG"}, price : {9880, 10020},
           notional : {1}, ts_ms : {0, WindowMs + 1}]

Abs(x) == IF x < 0 THEN -x ELSE x

\* prune: pops from the left while the head is older than the window
RECURSIVE Prune(_, _)
Prune(events, now_ms) ==
    IF events # <<>> /\ events[1].ts_ms < now_ms - WindowMs
    THEN Prune(Tail(events), now_ms)
    ELSE events

\* _bucket
Bucket(price) == (price \div BinSize) * BinSize

\* exp(-k) in thousandths, k = 0, 1, 2, 3
ExpThousandths == <<1000, 368, 135, 50>>

\* math.exp(-age_minutes / decay_minutes) in thousandths, interpolated
\* between the whole multiples of the decay time and rounded
Decay(age_ms) ==
    LET k == Min(age_ms \div DecayMs, Len(ExpThousandths) - 2)
        lo == ExpThousandths[k + 1]
        hi == ExpThousandths[k + 2]
        part == Min(age_ms - k * DecayMs, DecayMs)
    IN  lo - ((lo - hi) * part + DecayMs \div 2) \div DecayMs

\* _decayed_bins: the buckets of one side in the order the dict first saw
\* them, each with its decayed notional
RECURSIVE DecayedBins(_, _, _)
DecayedBins(events, target_side, now_ms) ==
    IF events = <<>> THEN <<>>
    ELSE LET event == events[Len(events)]
             buckets == DecayedBins(SubSeq(events, 1, Len(events) - 1), target_side, now_ms)
             decay == Decay(Max(0, now_ms - event.ts_ms))
             bucket == Bucket(event.price)
         IN  IF event.liquidated_side # target_side THEN buckets
             ELSE IF \E i \in DOMAIN buckets : buckets[i].bucket_price = bucket
             THEN [i \in DOMAIN buckets |->
                      IF buckets[i].bucket_price = bucket
                      THEN [buckets[i] EXCEPT !.weighted_notional = @ + event.notional * decay]
                      ELSE buckets[i]]
             ELSE Append(buckets, [bucket_price |-> bucket,
                                   weighted_notional |-> event.notional * decay])

\* ten times _percentile(values, tenths / 10): linear interpolation between
\* the two ranks around tenths / 10 * (len - 1)
PercentileTimes10(values, tenths) ==
    IF values = <<>> THEN 0
    ELSE IF Len(values) = 1 THEN values[1] * 10
    ELSE LET index10 == Clamp(tenths, 0, 10) * (Len(values) - 1)
             low == index10 \div 10
             weight10 == index10 % 10
         IN  IF weight10 = 0 THEN Ranked(values, low) * 10
             ELSE Ranked(values, low) * (10 - weight10) + Ranked(values, low + 1) * weight10

\* abs(bucket_price - current_price) / current_price
DistancePct(bucket_price, current_price) ==
    (Abs(bucket_price - current_price) * DistanceUnit) \div current_price

\* math.exp(-(distance_pct / 0.004)) in millionths, for the distances of the
\* bins, which are whole percents of the price: exp(-2.5) per percent, below
\* a millionth but positive from six percent on, and 0.0 once the argument
\* passes the smallest double (745.13, a distance of 2.98)
DistanceFactor(distance_pct) ==
    LET percents == distance_pct \div 100
    IN  CASE percents = 0 -> FactorUnit
          [] percents = 1 -> 82085
          [] percents = 2 -> 6738
          [] percents = 3 -> 553
          [] percents = 4 -> 45
          [] percents = 5 -> 4
          [] percents > 5 /\ percents < 299 -> 1
          [] OTHER -> 0

\* the bucket is on the side the direction needs
SameSide(bucket_price, current_price, need_above) ==
    IF need_above THEN ~(bucket_price < current_price)
    ELSE ~(bucket_price > current_price)

\* base * math.exp(-(distance_pct / 0.004)), base = min(1.0, weighted / p90)
BucketScore(bin, current_price, p90_times10) ==
    LET base == Min(BaseUnit, (bin.weighted_notional * 10 * BaseUnit) \div p90_times10)
    IN  base * DistanceFactor(DistancePct(bin.bucket_price, current_price))

\* mutant: the loop keeps the last same-side bucket, whatever its score
LastBucket(bins, n, current_price, need_above, p90_times10) ==
    LET same == {i \in 1..n : SameSide(bins[i].bucket_price, current_price, need_above)}
    IN  IF same = {} THEN [best |-> 0, best_distance |-> None]
        ELSE LET i == CHOOSE i \in same : \A j \in same : j <= i
             IN  [best |-> BucketScore(bins[i], current_price, p90_times10),
                  best_distance |-> DistancePct(bins[i].bucket_price, current_price)]

\* the loop of _direction_score over the first n bins
RECURSIVE BestBucket(_, _, _, _, _)
BestBucket(bins, n, current_price, need_above, p90_times10) ==
    IF n = 0 THEN [best |-> 0, best_distance |-> None]
    ELSE LET before == BestBucket(bins, n - 1, current_price, need_above, p90_times10)
             score == BucketScore(bins[n], current_price, p90_times10)
         IN  IF SameSide(bins[n].bucket_price, current_price, need_above)
                /\ score > before.best
             THEN [best |-> score,
                   best_distance |-> DistancePct(bins[n].bucket_price, current_price)]
             ELSE before

\* _direction_score: (best, best_distance, p90), the p90 times ten
DirectionScore(bins, current_price, need_above) ==
    LET p90_times10 == PercentileTimes10([i \in DOMAIN bins |-> bins[i].weighted_notional], 9)
    IN  IF bins = <<>> \/ p90_times10 <= 0
        THEN [best |-> 0, best_distance |-> None, p90 |-> 0]
        ELSE LET found == BestBucket(bins, Len(bins), current_price, need_above, p90_times10)
             IN  [best |-> found.best, best_distance |-> found.best_distance,
                  p90 |-> p90_times10]

\* proximity_scores, after its prune
ProximityScores(events, current_price, now_ms) ==
    LET long == DirectionScore(DecayedBins(events, "SHORT", now_ms), current_price, TRUE)
        short == DirectionScore(DecayedBins(events, "LONG", now_ms), current_price, FALSE)
    IN  [scored |-> TRUE,
         now_ms |-> now_ms,
         long_score |-> long.best,
         short_score |-> short.best,
         long_distance_pct |-> long.best_distance,
         short_distance_pct |-> short.best_distance,
         short_cluster_p90 |-> long.p90,
         long_cluster_p90 |-> short.p90]

NoProximity == [scored |-> FALSE]

ParkedBook ==
    /\ book_events = <<>>
    /\ proximity = NoProximity

\* LiquidationBook(...): no events; no cycle has scored yet
InitBook ==
    /\ book_events = <<>>
    /\ proximity = NoProximity

\* _liquidation_worker: book.add(event), which appends and prunes at the
\* event's own timestamp
BookAdd(event) ==
    /\ Len(book_events) < MaxBookEvents
    /\ book_events' = Prune(Append(book_events, event), event.ts_ms)
    /\ UNCHANGED proximity
    /\ UNCHANGED bookOthers

\* the scoring cycle: liq = book.proximity_scores(current_price, now_ms);
\* the cycles' clock does not run backwards
BookScore(now_ms) ==
    /\ proximity.scored => now_ms >= proximity.now_ms
    /\ book_events' = Prune(book_events, now_ms)
    /\ proximity' = ProximityScores(book_events', BookPrice, now_ms)
    /\ UNCHANGED bookOthers

NextBook ==
    \/ \E event \in Liquidations : BookAdd(event)
    \/ \E now_ms \in ScoringTimes : BookScore(now_ms)

(***************************************************************************)
(* degrade_reason of an emitted event, from the reason codes of its cycle. *)
(***************************************************************************)
\* longest list of reason codes one cycle collects here
MaxReasons == 3

\* Reason codes of the four layers, in the order Python's str comparison
\* (by code point) gives them
ReasonOrder ==
    <<"BINANCE_INACTIVE", "BINANCE_RUNTIMEERROR", "BINANCE_STALE", "BYBIT_403",
      "CANDLE_RUNTIMEERROR", "INSUFFICIENT_EXCHANGES_FOR_DIVERGENCE",
      "SMC_RUNTIMEERROR", "STABLECOIN_RUNTIMEERROR", "TELEGRAM_RUNTIMEERROR",
      "WHALE_ALERT_NO_DATA">>

ReasonCodes == {ReasonOrder[k] : k \in DOMAIN ReasonOrder}

\* the place of a code in that order
Rank(code) == CHOOSE k \in DOMAIN ReasonOrder : ReasonOrder[k] = code

\* sorted(codes) of a set of codes
RECURSIVE SortedCodes(_)
SortedCodes(codes) ==
    IF codes = {} THEN <<>>
    ELSE LET least == CHOOSE a \in codes : \A b \in codes : Rank(a) <= Rank(b)
         IN  <<least>> \o SortedCodes(codes \ {least})

\* "|".join(parts)
RECURSIVE JoinBar(_)
JoinBar(parts) ==
    IF parts = <<>> THEN ""
    ELSE IF Len(parts) = 1 THEN parts[1]
    ELSE parts[1] \o "|" \o JoinBar(Tail(parts))

NoReason == [emitted |-> FALSE]

\* mutant: the codes are joined as they were appended
DegradeReasonAsAppended(reasons) ==
    [emitted |-> TRUE, present |-> reasons # <<>>, text |-> JoinBar(reasons)]

\* degrade_reason="|".join(sorted(set(degraded_reasons))) if degraded_reasons else None
DegradeReason(reasons) ==
    IF reasons # <<>>
    THEN [emitted |-> TRUE, present |-> TRUE,
          text |-> JoinBar(SortedCodes({reasons[k] : k \in DOMAIN reasons}))]
    ELSE [emitted |-> TRUE, present |-> FALSE, text |-> ""]

ParkedReasons ==
    /\ reason_codes = <<>>
    /\ degrade_reason = NoReason

\* a cycle that is about to emit, with the codes it appended
InitReasons ==
    /\ reason_codes \in UNION {[1..n -> ReasonCodes] : n \in 0..MaxReasons}
    /\ degrade_reason = NoReason

\* the event is built: TrapSetupEvent(...), AbsorptionEvent(...),
\* PrePumpEvent(...), ExecutionEvent(...)
EmitDegradeReason ==
    /\ ~degrade_reason.emitted
    /\ degrade_reason' = DegradeReason(reason_codes)
    /\ UNCHANGED reason_codes
    /\ UNCHANGED reasonOthers

NextReasons == EmitDegradeReason

(***************************************************************************)
(* The breakdowns and scores of Layer0, Layer1 and Layer2, computed from   *)
(* what a cycle measured.  A measurement divided by its configured scale   *)
(* is given in percent of the scale; components are in percent, weights in *)
(* percent, weighted scores in units of 1e-4.                              *)
(***************************************************************************)
\* value / scale: below zero, inside and beyond the scale
RatioChoices == {-250, -40, 0, 40, 250}

\* the book of a cycle: empty, or one liquidation of the window
BookChoices == {<<>>} \cup {<<e>> : e \in {x \in Liquidations : x.ts_ms = 0}}

\* liq.long_score / liq.short_score in percent
LiquidationComponent(score) == score \div (ScoreUnit \div Percent)

\* compute_funding_oi_scores: (long_score, short_score)
ComputeFundingOiScores(funding, oi_change, oi_accel, ret_5m, low_vol) ==
    LET funding_long == Clamp(-funding, 0, Percent)
        funding_short == Clamp(funding, 0, Percent)
        oi_rise == Clamp(oi_change, 0, Percent)
        oi_accel_score == Clamp(oi_accel, 0, Percent)
        compression == Clamp(Percent - Abs(ret_5m), 0, Percent)
        oi_drive == Max(oi_rise, oi_accel_score)
        long_score == IF low_vol THEN (65 * funding_long + 35 * oi_rise) * compression
                      ELSE (35 * funding_long + 65 * oi_drive) * compression
        short_score == IF low_vol THEN (65 * funding_short + 35 * oi_rise) * compression
                       ELSE (35 * funding_short + 65 * oi_drive) * compression
        unit == Percent * Percent * Percent
    IN  [long |-> Clamp(long_score, 0, unit) \div (Percent * Percent),
         short |-> Clamp(short_score, 0, unit) \div (Percent * Percent)]

\* compute_oi_divergence_score: 0.0 with fewer than two exchanges, else
\* clamp((spread - floor) / span)
ComputeOiDivergenceScore(exchanges, spread) ==
    IF exchanges < 2 THEN 0 ELSE Clamp(spread, 0, Percent)

Layer0Measurements ==
    [layer : {0}, book : BookChoices, funding : RatioChoices,
     oi_change : {-40, 40, 250}, oi_accel : {0, 250}, ret_5m : {-150, 0, 50},
     low_vol : BOOLEAN, exchanges : {1, 2}, spread : {-40, 40, 250}]

\* the Layer0 cycle from liq = book.proximity_scores(...) to the two
\* directional scores
Layer0Scores(m) ==
    LET liq == ProximityScores(m.book, BookPrice, 1)
        funding == ComputeFundingOiScores(m.funding, m.oi_change, m.oi_accel,
                                          m.ret_5m, m.low_vol)
        breakdown == [liquidation_long |-> LiquidationComponent(liq.long_score),
                      liquidation_short |-> LiquidationComponent(liq.short_score),
                      funding_oi_long |-> funding.long,
                      funding_oi_short |-> funding.short,
                      oi_divergence |-> ComputeOiDivergenceScore(m.exchanges, m.spread)]
    IN  [layer |-> 0,
         components |-> <<breakdown.liquidation_long, breakdown.liquidation_short,
                          breakdown.funding_oi_long, breakdown.funding_oi_short,
                          breakdown.oi_divergence>>,
         scores |-> <<ComputeDirectionalScore(breakdown, "LONG"),
                      ComputeDirectionalScore(breakdown, "SHORT")>>]

\* Layer1Weights (whale_net_flow, twap_uniformity, cvd, stablecoin_inflow):
\* the defaults, and two settings that sum to 1
Layer1WeightChoices == {<<24, 12, 22, 10>>, <<40, 20, 30, 10>>, <<0, 0, 0, 100>>}

\* the score a hidden divergence adds, and the floor it puts under the CVD score
HiddenDivergenceBonus == 10
HiddenDivergenceFloor == 60

\* compute_whale_net_flow_scores (scale_usd > 0)
ComputeWhaleNetFlowScores(net_flow) ==
    [long |-> Clamp(Max(net_flow, 0), 0, Percent),
     short |-> Clamp(Max(-net_flow, 0), 0, Percent)]

\* compute_twap_uniformity_scores (cv_limit > 0): nothing with fewer than
\* three whale trades, else uniformity times the share of aggressive buys / sells
ComputeTwapUniformityScores(cv, whale_trades, buy_aggressive) ==
    IF whale_trades < 3 THEN [long |-> 0, short |-> 0]
    ELSE LET uniformity == Clamp(Percent - cv, 0, Percent)
             sell_aggressive == whale_trades - buy_aggressive
         IN  [long |-> (uniformity * buy_aggressive) \div whale_trades,
              short |-> (uniformity * sell_aggressive) \div whale_trades]

\* compute_cvd_scores (cvd_scale_usd > 0)
ComputeCvdScores(cvd_delta, price_delta) ==
    LET hidden_long == price_delta > 0 /\ cvd_delta < 0
        hidden_short == price_delta < 0 /\ cvd_delta > 0
        long_score == Clamp(Max(cvd_delta, 0), 0, Percent)
        short_score == Clamp(Max(-cvd_delta, 0), 0, Percent)
    IN  [long |-> IF hidden_long THEN Max(long_score, HiddenDivergenceFloor) ELSE long_score,
         short |-> IF hidden_short THEN Max(short_score, HiddenDivergenceFloor) ELSE short_score,
         hidden_long |-> hidden_long,
         hidden_short |-> hidden_short]

\* compute_stablecoin_inflow_score (scale_usd > 0)
ComputeStablecoinInflowScore(inflow) == Clamp(Max(inflow, 0), 0, Percent)

\* mutant: the weighted sum plus the bonus is returned as it is
ComputeAbsorptionScoreUnclamped(components, hidden, weights) ==
    SumOver([k \in 1..4 |-> weights[k] * components[k]], 1..4)
        + (IF hidden THEN HiddenDivergenceBonus * Percent ELSE 0)

\* compute_absorption_score over breakdown.score_components(direction)
ComputeAbsorptionScore(components, hidden, weights) ==
    LET score == SumOver([k \in 1..4 |-> weights[k] * components[k]], 1..4)
                    + (IF hidden THEN HiddenDivergenceBonus * Percent ELSE 0)
    IN  Clamp(score, 0, Percent * Percent)

Layer1Measurements ==
    {m \in [layer : {1}, direction : {"LONG", "SHORT"},
            whale_net_flow : {-250, 0, 40, 250},
            cv : {0, 50, 150}, whale_trades : {2, 4}, buy_aggressive : {0, 1, 4},
            cvd_delta : {-250, 0, 40, 250}, price_delta : {-1, 0, 1},
            stablecoin : {-40, 50, 250}, weights : Layer1WeightChoices] :
        m.buy_aggressive <= m.whale_trades}

\* the Layer1 cycle from the metrics to score
Layer1Scores(m) ==
    LET whale == ComputeWhaleNetFlowScores(m.whale_net_flow)
        twap == ComputeTwapUniformityScores(m.cv, m.whale_trades, m.buy_aggressive)
        cvd == ComputeCvdScores(m.cvd_delta, m.price_delta)
        stablecoin == ComputeStablecoinInflowScore(m.stablecoin)
        long == m.direction = "LONG"
        components == IF long THEN <<whale.long, twap.long, cvd.long, stablecoin>>
                      ELSE <<whale.short, twap.short, cvd.short, stablecoin>>
        hidden == IF long THEN cvd.hidden_long ELSE cvd.hidden_short
    IN  [layer |-> 1,
         components |-> <<whale.long, whale.short, twap.long, twap.short,
                          cvd.long, cvd.short, stablecoin>>,
         scores |-> <<ComputeAbsorptionScore(components, hidden, m.weights)>>]

Layer2Measurements ==
    [layer : {2}, choch : BOOLEAN, order_block : BOOLEAN, signals : IgnitionSignals]

\* the Layer2 cycle: score = breakdown.confirmations / 5.0
Layer2Scores(m) ==
    LET breakdown == BuildIgnitionBreakdown(m.choch, m.order_block, m.signals)
    IN  [layer |-> 2,
         components |-> <<>>,
         scores |-> <<(breakdown.confirmations * Percent * Percent) \div ConfirmationSlots>>]

NoScores == [layer |-> -1]

ParkedScores ==
    /\ score_input = NoScores
    /\ score_output = NoScores

InitScores ==
    /\ score_input \in Layer0Measurements \cup Layer1Measurements \cup Layer2Measurements
    /\ score_output = NoScores

\* layer0 _scoring_loop
ScoreLayer0 ==
    /\ score_input.layer = 0
    /\ score_output = NoScores
    /\ score_output' = Layer0Scores(score_input)
    /\ UNCHANGED score_input
    /\ UNCHANGED scoreOthers

\* layer1 _scoring_loop
ScoreLayer1 ==
    /\ score_input.layer = 1
    /\ score_output = NoScores
    /\ score_output' = Layer1Scores(score_input)
    /\ UNCHANGED score_input
    /\ UNCHANGED scoreOthers

\* layer2 _scoring_loop
ScoreLayer2 ==
    /\ score_input.layer = 2
    /\ score_output = NoScores
    /\ score_output' = Layer2Scores(score_input)
    /\ UNCHANGED score_input
    /\ UNCHANGED scoreOthers

NextScores == ScoreLayer0 \/ ScoreLayer1 \/ ScoreLayer2

\* The layer that runs and its configuration; the other layers never start.
\* Layer3 runs here in paper mode without a notifier, under every guard
\* configuration.
InitLayers ==
    /\ layer \in 1..3
    /\ ParkedLayer0
    /\ ParkedPlanner
    /\ ParkedBook
    /\ ParkedReasons
    /\ ParkedScores
    /\ ttl_seconds \in TtlSecondsChoices
    /\ discarded_expired = FALSE
    /\ InitL1
    /\ InitHealth
    /\ InitL2
    /\ InitL3
    /\ enable_smartmoneyconcepts \in (IF layer = 2 THEN BOOLEAN ELSE {TRUE})
    /\ min_confirmations = DefaultMinConfirmations
    /\ min_entry_gap_us \in (IF layer = 3 THEN EntryGapUsChoices ELSE {0})
    /\ max_entries_per_hour \in (IF layer = 3 THEN EntriesPerHourChoices ELSE {0})
    /\ live_mode = FALSE
    /\ telegram_enabled = FALSE

NextLayers ==
    \/ Tick
    \/ \E e \in Arrivals : L1Consume(e) \/ L2Consume(e) \/ L3Receive(e)
    \/ \E enough, gate \in BOOLEAN : L1Score(enough, gate)
    \/ L2CandlesLoaded
    \/ \E i \in QuietIgnitionInputs :
            L2ScoreBegin(i.signals) \/ L2ScoreFinish(i.detect, i.signals)
    \/ \E made \in 0..Len(OrderPlan("LONG")), raised, send_ok \in BOOLEAN :
            L3Execute(made, raised, send_ok)

(***************************************************************************)
(* The specifications.                                                     *)
(***************************************************************************)
\* the state of a subsystem that a specification does not run
ParkedChannel ==
    /\ maxsize = 0
    /\ out_queue = <<>>
    /\ queue_drops = [p \in Producers |-> 0]
    /\ putters = [p \in Producers |-> 0]
    /\ next_event = 1
    /\ last_emit = NoEmit
    /\ received = <<>>

ParkedBackoff ==
    /\ backoff_min = 0
    /\ backoff_max = 0
    /\ reconnects = 0
    /\ poller = NewWorker
    /\ streamer = NewWorker

ParkedTasks ==
    /\ tasks = [t \in AllTaskNames |-> "absent"]
    /\ cancel_sent = {}
    /\ runner = "waiting"
    /\ cadence_seconds = 1

ParkedUpperLayers ==
    /\ ParkedPlanner
    /\ ParkedBook
    /\ ParkedReasons
    /\ ParkedScores
    /\ ttl_seconds = 0
    /\ discarded_expired = FALSE
    /\ InitL1
    /\ InitHealth
    /\ InitL2
    /\ InitL3
    /\ enable_smartmoneyconcepts = TRUE
    /\ min_confirmations = DefaultMinConfirmations
    /\ min_entry_gap_us = 0
    /\ max_entries_per_hour = 0
    /\ live_mode = FALSE
    /\ telegram_enabled = FALSE

ParkedLayers ==
    /\ ParkedLayer0
    /\ ParkedUpperLayers

ChannelInit ==
    /\ InitChannel
    /\ stop_event = FALSE
    /\ ParkedBackoff
    /\ layer = 0
    /\ ParkedTasks
    /\ InitClock
    /\ ParkedLayers

SpecChannel == ChannelInit /\ [][NextChannel]_vars

BackoffInit ==
    /\ ParkedChannel
    /\ stop_event = FALSE
    /\ InitBackoff
    /\ layer = 0
    /\ ParkedTasks
    /\ InitClock
    /\ ParkedLayers

SpecBackoff == BackoffInit /\ [][NextBackoff]_vars

StopInit ==
    /\ ParkedChannel
    /\ stop_event = FALSE
    /\ ParkedBackoff
    /\ InitStop
    /\ InitClock
    /\ ParkedLayers

\* The event loop runs every task that is ready: a task resumed at its loop
\* test, a sleeper whose stop_event.wait() completed, a task with a pending
\* CancelledError, and run_layerN once its wait or its gather completed.
\* Nothing is assumed of timeouts, of collaborator calls or of queue.get(),
\* nor of the stop event ever being set.
StopFairness ==
    /\ \A t \in AllTaskNames :
        /\ WF_vars(TaskLoopTest(t))
        /\ WF_vars(TaskSleepWake(t))
        /\ WF_vars(TaskCancelled(t))
    /\ WF_vars(RunnerWake)
    /\ WF_vars(RunnerGathered)
    /\ WF_vars(RunnerReturn)

SpecStop == StopInit /\ [][NextStop]_vars /\ StopFairness

LayersInit ==
    /\ ParkedChannel
    /\ stop_event = FALSE
    /\ ParkedBackoff
    /\ ParkedTasks
    /\ InitClock
    /\ InitLayers

SpecLayers == LayersInit /\ [][NextLayers]_vars

\* Layer3 alone, in paper and in live mode, with and without a notifier, with
\* the entry guards switched off and pre_pump_ttl_seconds = 0.
InitExecutor ==
    /\ layer = 3
    /\ ParkedLayer0
    /\ ParkedPlanner
    /\ ParkedBook
    /\ ParkedReasons
    /\ ParkedScores
    /\ ttl_seconds = 0
    /\ discarded_expired = FALSE
    /\ InitL1
    /\ InitHealth
    /\ InitL2
    /\ InitL3
    /\ enable_smartmoneyconcepts = TRUE
    /\ min_confirmations = DefaultMinConfirmations
    /\ min_entry_gap_us = 0
    /\ max_entries_per_hour = 0
    /\ live_mode \in BOOLEAN
    /\ telegram_enabled \in BOOLEAN

ExecutorInit ==
    /\ ParkedChannel
    /\ stop_event = FALSE
    /\ ParkedBackoff
    /\ ParkedTasks
    /\ InitClock
    /\ InitExecutor

NextExecutor ==
    \/ Tick
    \/ \E e \in Arrivals : L3Receive(e)
    \/ \E made \in 0..Len(OrderPlan("LONG")), raised, send_ok \in BOOLEAN :
            L3Execute(made, raised, send_ok)

SpecExecutor == ExecutorInit /\ [][NextExecutor]_vars

\* Layer3 alone, in paper and in live mode, with and without a notifier,
\* under every guard configuration and both TTLs.
InitGuards ==
    /\ layer = 3
    /\ ParkedLayer0
    /\ ParkedPlanner
    /\ ParkedBook
    /\ ParkedReasons
    /\ ParkedScores
    /\ ttl_seconds \in TtlSecondsChoices
    /\ discarded_expired = FALSE
    /\ InitL1
    /\ InitHealth
    /\ InitL2
    /\ InitL3
    /\ enable_smartmoneyconcepts = TRUE
    /\ min_confirmations = DefaultMinConfirmations
    /\ min_entry_gap_us \in EntryGapUsChoices
    /\ max_entries_per_hour \in EntriesPerHourChoices
    /\ live_mode \in BOOLEAN
    /\ telegram_enabled \in BOOLEAN

GuardsInit ==
    /\ ParkedChannel
    /\ stop_event = FALSE
    /\ ParkedBackoff
    /\ ParkedTasks
    /\ InitClock
    /\ InitGuards

SpecGuards == GuardsInit /\ [][NextExecutor]_vars

\* Layer3 alone in paper mode with the entry guards off and a seen-id FIFO
\* of a capacity that the events of one behaviour fill.
InitSeen ==
    /\ layer = 3
    /\ ParkedLayer0
    /\ ParkedPlanner
    /\ ParkedBook
    /\ ParkedReasons
    /\ ParkedScores
    /\ ttl_seconds = 1
    /\ discarded_expired = FALSE
    /\ InitL1
    /\ InitHealth
    /\ InitL2
    /\ InitL3State
    /\ seen_fifo_maxlen \in SeenMaxlenChoices
    /\ enable_smartmoneyconcepts = TRUE
    /\ min_confirmations = DefaultMinConfirmations
    /\ min_entry_gap_us = 0
    /\ max_entries_per_hour = 0
    /\ live_mode = FALSE
    /\ telegram_enabled \in BOOLEAN

SeenInit ==
    /\ ParkedChannel
    /\ stop_event = FALSE
    /\ ParkedBackoff
    /\ ParkedTasks
    /\ InitClock
    /\ InitSeen

SpecSeen == SeenInit /\ [][NextExecutor]_vars

\* Layer2 alone, with the detector on and off, under each min_confirmations,
\* its upstream events never expiring within the behaviour.
InitIgnition ==
    /\ layer = 2
    /\ ParkedLayer0
    /\ ParkedPlanner
    /\ ParkedBook
    /\ ParkedReasons
    /\ ParkedScores
    /\ ttl_seconds = 1
    /\ discarded_expired = FALSE
    /\ InitL1
    /\ InitHealth
    /\ InitL2
    /\ InitL3
    /\ enable_smartmoneyconcepts \in BOOLEAN
    /\ min_confirmations \in MinConfirmationsChoices
    /\ min_entry_gap_us = 0
    /\ max_entries_per_hour = 0
    /\ live_mode = FALSE
    /\ telegram_enabled = FALSE

IgnitionInit ==
    /\ ParkedChannel
    /\ stop_event = FALSE
    /\ ParkedBackoff
    /\ ParkedTasks
    /\ InitClock
    /\ InitIgnition

NextIgnition ==
    \/ \E e \in {a \in Arrivals : Accepted(a)} : L2Consume(e)
    \/ L2CandlesLoaded
    \/ L2CandlesFailed("RuntimeError")
    \/ \E signals \in IgnitionSignals : L2ScoreBegin(signals)
    \/ \E i \in IgnitionInputs : L2ScoreFinish(i.detect, i.signals)

SpecIgnition == IgnitionInit /\ [][NextIgnition]_vars

PlannerInit ==
    /\ ParkedChannel
    /\ stop_event = FALSE
    /\ ParkedBackoff
    /\ layer = 3
    /\ ParkedTasks
    /\ InitClock
    /\ ParkedLayer0
    /\ ParkedBook
    /\ ParkedReasons
    /\ ParkedScores
    /\ ttl_seconds = 0
    /\ discarded_expired = FALSE
    /\ InitL1
    /\ InitHealth
    /\ InitL2
    /\ InitL3
    /\ enable_smartmoneyconcepts = TRUE
    /\ min_confirmations = DefaultMinConfirmations
    /\ min_entry_gap_us = 0
    /\ max_entries_per_hour = 0
    /\ live_mode = FALSE
    /\ telegram_enabled = FALSE
    /\ InitPlanner

SpecPlanner == PlannerInit /\ [][NextPlanner]_vars

\* Layer1 alone, its upstream writing the symbol in either letter case
InitAbsorption ==
    /\ layer = 1
    /\ ttl_seconds \in TtlSecondsChoices
    /\ min_entry_gap_us = 0
    /\ max_entries_per_hour = 0
    /\ enable_smartmoneyconcepts = TRUE
    /\ min_confirmations = DefaultMinConfirmations
    /\ live_mode = FALSE
    /\ telegram_enabled = FALSE
    /\ ParkedLayer0
    /\ ParkedPlanner
    /\ ParkedBook
    /\ ParkedReasons
    /\ ParkedScores

AbsorptionInit ==
    /\ ParkedChannel
    /\ stop_event = FALSE
    /\ ParkedBackoff
    /\ ParkedTasks
    /\ InitClock
    /\ discarded_expired = FALSE
    /\ InitL1
    /\ InitHealth
    /\ InitL2
    /\ InitL3
    /\ InitAbsorption

NextAbsorption ==
    \/ Tick
    \/ \E e \in CasedArrivals : L1Consume(e)
    \/ \E enough, gate \in BOOLEAN : L1Score(enough, gate)

SpecAbsorption == AbsorptionInit /\ [][NextAbsorption]_vars

BookInit ==
    /\ ParkedChannel
    /\ stop_event = FALSE
    /\ ParkedBackoff
    /\ layer = 0
    /\ ParkedTasks
    /\ InitClock
    /\ ParkedLayer0
    /\ ParkedPlanner
    /\ ttl_seconds = 0
    /\ discarded_expired = FALSE
    /\ InitL1
    /\ InitHealth
    /\ InitL2
    /\ InitL3
    /\ enable_smartmoneyconcepts = TRUE
    /\ min_confirmations = DefaultMinConfirmations
    /\ min_entry_gap_us = 0
    /\ max_entries_per_hour = 0
    /\ live_mode = FALSE
    /\ telegram_enabled = FALSE
    /\ ParkedReasons
    /\ ParkedScores
    /\ InitBook

SpecBook == BookInit /\ [][NextBook]_vars

ReasonsInit ==
    /\ ParkedChannel
    /\ stop_event = FALSE
    /\ ParkedBackoff
    /\ layer = 0
    /\ ParkedTasks
    /\ InitClock
    /\ ParkedLayer0
    /\ ParkedPlanner
    /\ ParkedBook
    /\ ttl_seconds = 0
    /\ discarded_expired = FALSE
    /\ InitL1
    /\ InitHealth
    /\ InitL2
    /\ InitL3
    /\ enable_smartmoneyconcepts = TRUE
    /\ min_confirmations = DefaultMinConfirmations
    /\ min_entry_gap_us = 0
    /\ max_entries_per_hour = 0
    /\ live_mode = FALSE
    /\ telegram_enabled = FALSE
    /\ ParkedScores
    /\ InitReasons

SpecReasons == ReasonsInit /\ [][NextReasons]_vars

ScoresInit ==
    /\ ParkedChannel
    /\ stop_event = FALSE
    /\ ParkedBackoff
    /\ layer = 0
    /\ ParkedTasks
    /\ InitClock
    /\ ParkedLayer0
    /\ ParkedPlanner
    /\ ParkedBook
    /\ ttl_seconds = 0
    /\ discarded_expired = FALSE
    /\ InitL1
    /\ InitHealth
    /\ InitL2
    /\ InitL3
    /\ enable_smartmoneyconcepts = TRUE
    /\ min_confirmations = DefaultMinConfirmations
    /\ min_entry_gap_us = 0
    /\ max_entries_per_hour = 0
    /\ live_mode = FALSE
    /\ telegram_enabled = FALSE
    /\ ParkedReasons
    /\ InitScores

SpecScores == ScoresInit /\ [][NextScores]_vars

Layer0Init ==
    /\ ParkedChannel
    /\ stop_event = FALSE
    /\ ParkedBackoff
    /\ ParkedTasks
    /\ InitClock
    /\ InitLayer0
    /\ ParkedUpperLayers

SpecLayer0 == Layer0Init /\ [][NextLayer0]_vars

GateInit ==
    /\ ParkedChannel
    /\ stop_event = FALSE
    /\ ParkedBackoff
    /\ ParkedTasks
    /\ InitClock
    /\ InitGate
    /\ ParkedUpperLayers

SpecGate == GateInit /\ [][NextGate]_vars

(***************************************************************************)
(* Properties.                                                             *)
(***************************************************************************)
\* C1: on a bounded channel (capacity N > 0) the number of queued events
\* never exceeds N, whatever the producers emit and the consumer receives.
CapacityNeverExceeded == maxsize > 0 => Len(out_queue) <= maxsize

\* C1 witness: a bounded channel is at capacity after every producer has
\* emitted onto it while it was full.
CapacityReachedByAll ==
    /\ maxsize > 0
    /\ Len(out_queue) = maxsize
    /\ \A p \in Producers : queue_drops[p] > 0

\* C2: an emit on a full channel discards exactly the oldest queued event,
\* puts the new event at the tail and adds exactly 1 to queue_drops; an emit
\* on a channel that is not full appends the event and leaves queue_drops
\* alone; a full capacity-1 channel holds exactly the new event afterwards.
DropOldestOnFull ==
    last_emit.op = "emit" =>
        LET p == last_emit.producer
        IN  IF last_emit.was_full
            THEN /\ out_queue = Append(Tail(last_emit.pre_queue), last_emit.event)
                 /\ queue_drops[p] = last_emit.pre_drops + 1
                 /\ maxsize = 1 => out_queue = <<last_emit.event>>
            ELSE /\ out_queue = Append(last_emit.pre_queue, last_emit.event)
                 /\ queue_drops[p] = last_emit.pre_drops

\* C2 witness: an emit has just run on a full channel that held two events.
EmittedOnFullChannel ==
    /\ last_emit.op = "emit"
    /\ last_emit.was_full
    /\ Len(last_emit.pre_queue) >= 2

\* C3: no producer is ever left suspended inside an emit: every call of
\* _emit_with_drop_oldest completes without a dequeue by the consumer.
ProducerNeverWaits == \A p \in Producers : putters[p] = 0

\* C3 witness: the consumer never received anything and one producer has
\* completed every emit of the behaviour on a capacity-1 channel.
AllEmittedNoneReceived ==
    /\ maxsize = 1
    /\ next_event > MaxEvents
    /\ queue_drops[1] = MaxEvents - 1
    /\ putters[1] = 0

\* C4: once the stop event is set, every task of the layer ends and
\* run_layerN returns, without any timeout having to expire.
StopEndsEveryWorker ==
    stop_event ~> (runner = "returned" /\ \A t \in TaskNames : Finished(t))

\* C4 witness: run_layerN has returned after the stop event was set, with a
\* worker that returned by itself and a worker ended where it was suspended.
StoppedAndReturned ==
    /\ stop_event
    /\ runner = "returned"
    /\ \E t \in TaskNames : tasks[t] = "done"
    /\ \E t \in TaskNames : tasks[t] = "cancelled"

\* C5: a poller or stream worker ends only after the stop event has been
\* set, however many collaborator failures it meets, and every failure is
\* counted as exactly one reconnect.
WorkersOutliveFailures ==
    /\ poller.pc = "done" => stop_event
    /\ streamer.pc = "done" => stop_event
    /\ reconnects = poller.failures + streamer.failures

\* C5 witness: with the stop event clear, the poller is fetching again after
\* two failures and the stream worker is reading again after one.
RetryingAfterFailures ==
    /\ ~stop_event
    /\ poller.failures >= 2
    /\ poller.pc = "io"
    /\ streamer.failures >= 1
    /\ streamer.pc = "io"

\* C6 as stated: the k-th consecutive failure of a REST poller is followed by
\* a sleep of min(max_seconds, min_seconds * 2^(k-1)).
PollerSleepClosedForm ==
    poller.streak >= 1 =>
        poller.slept = Min(backoff_max, backoff_min * 2 ^ (poller.streak - 1))

\* C6 amended: the first failure of a run of consecutive failures of a REST
\* poller (at start or after a successful poll) is followed by a sleep of
\* exactly min_seconds, clamped or not; the k-th one, k >= 2, by a sleep of
\* min(max_seconds, min_seconds * 2^(k-1)).
PollerSleepSchedule ==
    /\ poller.streak = 1 => poller.slept = backoff_min
    /\ poller.streak >= 2 =>
        poller.slept = Min(backoff_max, backoff_min * 2 ^ (poller.streak - 1))

\* C6 witness: the third consecutive failure of the poller sleeps the clamp
\* max_seconds, which is below the unclamped 4 * min_seconds.
PollerSleepClamped ==
    /\ poller.streak = 3
    /\ backoff_min > 0
    /\ backoff_min < backoff_max
    /\ backoff_max < backoff_min * 4
    /\ poller.slept = backoff_max

\* C7: in a stream worker configured with min_seconds <= max_seconds, the
\* first failure after a delivered item, earlier failures having occurred, is
\* followed by a sleep of min_seconds.
StreamSleepResets ==
    (backoff_min <= backoff_max /\ streamer.streak = 1 /\ streamer.failures >= 2)
        => streamer.slept = backoff_min

\* C8: no layer emits (Layer3: executes) from an upstream event that is older
\* than the TTL at the clock reading its processing cycle tested it with.
NoEmissionFromExpired ==
    /\ absorption_event # NotEmitted =>
            absorption_event.ts_ms - absorption_event.source_ts_ms <= TtlMs
    /\ pre_pump_event # NotEmitted =>
            pre_pump_event.ts_ms - pre_pump_event.source_ts_ms <= TtlMs
    /\ execution_event # NotEmitted =>
            execution_event.ttl_now_ms - execution_event.source_ts_ms <= TtlMs

\* C8 witness: Layer3 has discarded an expired PrePumpEvent and has executed
\* a PrePumpEvent that was within its TTL.
ExpiredDiscardedFreshExecuted ==
    /\ discarded_expired
    /\ execution_event # NotEmitted

\* C9: an absorption delivered once to Layer2 is the source of at most one
\* PrePumpEvent.
SingleIgnition ==
    \A i \in EventIds : deliveries[i] = 1 => ignitions[i] <= 1

\* C9 witness: an absorption delivered once has ignited, the active
\* absorption is cleared and the scoring loop is between two cycles.
IgnitedOnceAndCleared ==
    /\ \E i \in EventIds : deliveries[i] = 1 /\ ignitions[i] = 1
    /\ pre_pump_event # NotEmitted
    /\ active_absorption = NoEvent
    /\ l2_cycle.pc = "idle"

\* C10: with min_seconds_between_entries = g > 0, any two ExecutionEvents of
\* a Layer3 instance have ts_ms at least g seconds apart (both sides in
\* microseconds).
EntriesSpacedByGap ==
    min_entry_gap_us > 0 =>
        \A i, j \in 1..Len(executions) :
            i < j => (executions[j].ts_ms - executions[i].ts_ms) * 1000
                        >= min_entry_gap_us

\* C11: with max_entries_per_hour = m > 0, every window of 3,600,000 ms
\* holds the ts_ms of at most m ExecutionEvents of the Layer3 instance.
HourlyCapHolds ==
    max_entries_per_hour > 0 =>
        \A i \in 1..Len(executions) :
            Cardinality({j \in 1..Len(executions) :
                            /\ executions[j].ts_ms >= executions[i].ts_ms
                            /\ executions[j].ts_ms - executions[i].ts_ms < HourMs})
                <= max_entries_per_hour

\* C11 witness: the cap is 1 and a second entry was made once the first had
\* left the hour window.
CapRefusedThenAllowed ==
    /\ max_entries_per_hour = 1
    /\ Len(executions) = 2
    /\ executions[2].ts_ms - executions[1].ts_ms > HourMs

\* C12: an event id that produced an ExecutionEvent produces a second one
\* only if at least 4000 other ids were executed in between.
NoSecondExecution ==
    \A i, j \in 1..Len(executions) :
        (i < j /\ executions[i].source_pre_pump_event_id
                    = executions[j].source_pre_pump_event_id)
            => j - i - 1 >= SeenFifoMaxlen

\* C12 witness: an executed event was delivered again, returned at the
\* seen-id test, and left the executions as they were.
RedeliveryDropped ==
    /\ l3_return.how = "seen"
    /\ l3_return.pre_executions = 1
    /\ Len(executions) = 1
    /\ seen_source_fifo = <<executions[1].source_pre_pump_event_id>>

\* C13: when planning or order placement raises, no ExecutionEvent is
\* emitted for the event, the failure is counted, one error notification is
\* attempted per failure when a notifier is configured (its own failure
\* changes nothing), and _process_event has returned to the consumer loop.
RaiseIsContained ==
    /\ l3_return.how = "raised" =>
        /\ Len(executions) = l3_return.pre_executions
        /\ l3_call = IdleCall
        /\ l3_errors >= 1
    /\ error_alerts = (IF telegram_enabled THEN l3_errors ELSE 0)

\* C13 witness: with a notifier configured, an event executed after an
\* earlier event had raised and been reported.
ExecutedAfterRaise ==
    /\ telegram_enabled
    /\ l3_errors = 1
    /\ error_alerts = 1
    /\ l3_return.how = "emitted"
    /\ l3_return.pre_executions = 0

\* C14: in live mode an executed event has given the client exactly four
\* create-order calls: MARKET entry, STOP_MARKET, TAKE_PROFIT_MARKET (TP1),
\* TAKE_PROFIT_MARKET (TP2), the three exits reduce-only on the side opposite
\* to the entry; and an exit order is never placed without the entry call
\* before it.
LiveOrderSequence ==
    /\ (live_mode /\ l3_return.how = "emitted") =>
        /\ Len(order_calls) = 4
        /\ order_calls[1].type = "MARKET"
        /\ order_calls[1].side =
                (IF execution_event.direction = "LONG" THEN "BUY" ELSE "SELL")
        /\ ~order_calls[1].reduceOnly
        /\ order_calls[2].type = "STOP_MARKET"
        /\ order_calls[2].stopPrice = "plan.sl"
        /\ order_calls[3].type = "TAKE_PROFIT_MARKET"
        /\ order_calls[3].stopPrice = "plan.tp1"
        /\ order_calls[4].type = "TAKE_PROFIT_MARKET"
        /\ order_calls[4].stopPrice = "plan.tp2"
        /\ \A k \in 2..4 :
            /\ order_calls[k].reduceOnly
            /\ order_calls[k].side # order_calls[1].side
            /\ order_calls[k].side \in {"BUY", "SELL"}
    /\ \A k \in 1..Len(order_calls) :
            order_calls[k].type # "MARKET" => (k > 1 /\ order_calls[1].type = "MARKET")

\* C14 witness: a SHORT event was executed in live mode.
LiveShortExecuted ==
    /\ live_mode
    /\ l3_return.how = "emitted"
    /\ execution_event.direction = "SHORT"
    /\ Len(order_calls) = 4

\* C15: when send_message raises on an otherwise successful event, the
\* ExecutionEvent is still emitted, degraded with a TELEGRAM_ reason, and the
\* entry is recorded for the cooldown and the hourly cap.
NotificationFailureNotFatal ==
    (l3_return.how = "emitted" /\ l3_return.notify_failed) =>
        /\ Len(executions) = l3_return.pre_executions + 1
        /\ execution_event.degraded
        /\ execution_event.degrade_reason = "TELEGRAM_EXCEPTION"
        /\ last_entry_ts_ms = execution_event.ts_ms
        /\ recent_entry_ts # <<>>
        /\ recent_entry_ts[Len(recent_entry_ts)] = execution_event.ts_ms
        /\ executions[Len(executions)].ts_ms = execution_event.ts_ms

\* C15 witness: in live mode with a notifier, the notification of a second
\* entry failed and the entry was emitted.
DegradedEntryEmitted ==
    /\ live_mode
    /\ l3_return.how = "emitted"
    /\ l3_return.notify_failed
    /\ Len(executions) = 2

\* C16: every emitted event carries the id of its source and the source's
\* direction (and, for a PrePumpEvent, the source's trap id).
CausalPointers ==
    /\ absorption_event # NotEmitted =>
        /\ absorption_event.source_trap_event_id \in EventIds
        /\ absorption_event.direction = DirectionOf(absorption_event.source_trap_event_id)
    /\ pre_pump_event # NotEmitted =>
        /\ pre_pump_event.source_absorption_event_id \in EventIds
        /\ pre_pump_event.direction = DirectionOf(pre_pump_event.source_absorption_event_id)
        /\ pre_pump_event.source_trap_event_id
                = TrapOf(pre_pump_event.source_absorption_event_id)
    /\ execution_event # NotEmitted =>
        /\ execution_event.source_pre_pump_event_id \in EventIds
        /\ execution_event.direction = DirectionOf(execution_event.source_pre_pump_event_id)

\* C16 witness: Layer2 has emitted a PrePumpEvent from a SHORT absorption
\* while a different absorption had been delivered too.
ShortIgnitionEmitted ==
    /\ pre_pump_event # NotEmitted
    /\ pre_pump_event.direction = "SHORT"
    /\ \E i \in EventIds :
        i # pre_pump_event.source_absorption_event_id /\ deliveries[i] > 0

\* C17: with a warmup window configured, a Layer0 cycle computes scores only
\* when the OI history of every configured exchange spans the window
\* (now - oldest ts >= warmup_ms).
ScoredOnlyWhenAllWarm ==
    (l0_cycle.outcome = "scored" /\ layer0_config.warmup_ms > 0) => l0_cycle.cold = {}

\* C18: an emitted TrapSetupEvent's direction has a weighted score >= the
\* active threshold and at least 2 of its 3 components >= component_threshold,
\* and the event's score is that direction's score.
EmittedDirectionPassedGate ==
    (l0_cycle.outcome = "scored" /\ l0_cycle.emitted) =>
        LET components == ForDirection(l0_cycle.breakdown, trap_event.direction)
            own_score == IF trap_event.direction = "LONG" THEN l0_cycle.score_long
                         ELSE l0_cycle.score_short
        IN  /\ trap_event.event_id = l0_cycle.n
            /\ trap_event.score = own_score
            /\ own_score >= l0_cycle.active_threshold
            /\ Cardinality({k \in 1..3 : components[k] >= ComponentThreshold}) >= 2

\* C19: with the regime filter enabled, no TrapSetupEvent is emitted with a
\* direction whose regime score of that cycle is below min_score, here for
\* the directions whose score and components pass the gate.
RegimeVetoHolds ==
    (l0_cycle.outcome = "scored" /\ l0_cycle.emitted /\ layer0_config.regime_enabled) =>
        LET components == ForDirection(l0_cycle.breakdown, trap_event.direction)
        IN  (/\ trap_event.score >= l0_cycle.active_threshold
             /\ Cardinality({k \in 1..3 : components[k] >= ComponentThreshold}) >= 2)
            => (IF trap_event.direction = "LONG" THEN l0_cycle.regime.long
                ELSE l0_cycle.regime.short) >= RegimeMinScore * Percent

\* C20: the TrapSetupEvent a cycle emits is degraded exactly when, at that
\* cycle, some configured exchange has no snapshot or one older than
\* staleness_ms, or fewer than 2 exchanges give an OI change; and a cycle
\* whose gate passed emits, degraded or not.
DegradedExactly ==
    [][(cycles' = cycles + 1 /\ l0_cycle'.outcome = "scored") =>
        LET unusable == {name \in ConfiguredExchanges :
                            \/ ~states[name].snapshot.present
                            \/ now - states[name].snapshot.ts_ms > layer0_config.staleness_ms}
            samples == {name \in ConfiguredExchanges \ unusable :
                            Len(states[name].oi_history) >= 2}
        IN  /\ (l0_cycle'.long_pass \/ l0_cycle'.short_pass) =>
                    /\ trap_event'.event_id = cycles'
                    /\ trap_event'.degraded <=> (unusable # {} \/ Cardinality(samples) < 2)
            /\ ~(l0_cycle'.long_pass \/ l0_cycle'.short_pass) => trap_event' = trap_event
      ]_vars

\* C20 witness: with one exchange stale and the other giving no OI change, a
\* cycle passed the gate and emitted a degraded event.
DegradedStillEmitted ==
    /\ l0_cycle.outcome = "scored"
    /\ l0_cycle.stale_names # {}
    /\ l0_cycle.oi_changes = 0
    /\ trap_event.event_id = l0_cycle.n
    /\ trap_event.degraded

\* C21: when the structural detector raises, the Layer2 cycle still decides:
\* it counts at most the three remaining confirmations, it emits a
\* PrePumpEvent when they reach min_confirmations, and that event has choch
\* and order_block false and is degraded with an SMC_* reason.
SmcFailureDegradesOnly ==
    (l2_decision.made /\ l2_decision.detect_raised) =>
        /\ l2_decision.confirmations <= 3
        /\ last_smc_error \in {"SMC_" \o ClassNameUpper[c] : c \in DOMAIN ClassNameUpper}
        /\ (l2_decision.confirmations >= min_confirmations) =>
                /\ l2_decision.emitted
                /\ ~pre_pump_event.components.choch
                /\ ~pre_pump_event.components.order_block
                /\ pre_pump_event.components.confirmations = l2_decision.confirmations
                /\ pre_pump_event.degraded
                /\ \E k \in DOMAIN pre_pump_event.degraded_reasons :
                        pre_pump_event.degraded_reasons[k] = last_smc_error

\* C21 witness: the detector raised in a cycle whose three other
\* confirmations met min_confirmations = 3, and a degraded event went out.
DegradedIgnitionAfterSmcFailure ==
    /\ l2_decision.made
    /\ l2_decision.detect_raised
    /\ min_confirmations = 3
    /\ l2_decision.confirmations = 3
    /\ l2_decision.emitted
    /\ pre_pump_event.degraded

\* C29: an emitted PrePumpEvent's confirmations is the number of true flags
\* among its five components, is at least min_confirmations, and its score is
\* confirmations / 5; a cycle whose count is below min_confirmations emits
\* nothing.
ConfirmationGate ==
    /\ pre_pump_event # NotEmitted =>
        LET c == pre_pump_event.components
        IN  /\ c.confirmations = CountTrue(<<c.choch, c.order_block, c.absorption_strength,
                                             c.trap_strength, c.momentum>>)
            /\ c.confirmations >= min_confirmations
            /\ pre_pump_event.score * ConfirmationSlots = c.confirmations * Percent
    /\ l2_decision.made =>
        /\ l2_decision.confirmations < min_confirmations => ~l2_decision.emitted
        /\ l2_decision.confirmations >= min_confirmations =>
                /\ l2_decision.emitted
                /\ pre_pump_event.components.confirmations = l2_decision.confirmations

\* C29 witness: an event went out with four confirmations including a
\* structural one under min_confirmations = 4, and a later cycle with fewer
\* emitted nothing.
IgnitedThenBelowGate ==
    /\ min_confirmations = 4
    /\ pre_pump_event # NotEmitted
    /\ pre_pump_event.components.confirmations = 4
    /\ pre_pump_event.components.choch
    /\ l2_decision.made
    /\ l2_decision.confirmations = 3
    /\ ~l2_decision.emitted

\* C23: for entry_price > 0, default_sl_buffer_pct > 0 and
\* 0 < tp1_r_multiple < tp2_r_multiple, the plan has sl < entry < tp1 < tp2
\* for LONG and tp2 < tp1 < entry < sl for SHORT, whatever zone and
\* order-block levels the event carries.
PlanLevelsOrdered ==
    plan.built =>
        IF plan_request.direction = "LONG"
        THEN plan.sl < plan.entry /\ plan.entry < plan.tp1 /\ plan.tp1 < plan.tp2
        ELSE plan.tp2 < plan.tp1 /\ plan.tp1 < plan.entry /\ plan.entry < plan.sl

ProximityNoneWithoutBucket ==
    [][\A now_ms \in ScoringTimes : BookScore(now_ms) =>
          \A need_above \in BOOLEAN :
              \A bins \in {DecayedBins(book_events', IF need_above THEN "SHORT" ELSE "LONG", now_ms)} :
              \A p90 \in {PercentileTimes10([i \in DOMAIN bins |-> bins[i].weighted_notional], 9)} :
              \A same \in {{i \in DOMAIN bins : SameSide(bins[i].bucket_price, BookPrice, need_above)}} :
              LET score == IF need_above THEN proximity'.long_score ELSE proximity'.short_score
                  distance == IF need_above THEN proximity'.long_distance_pct
                              ELSE proximity'.short_distance_pct
              IN  IF same = {} THEN score = None /\ distance = None
                  ELSE /\ score \in 0..ScoreUnit
                       /\ \E i \in same :
                              /\ BucketScore(bins[i], BookPrice, p90) = score
                              /\ DistancePct(bins[i].bucket_price, BookPrice) = distance
                              /\ \A j \in same : BucketScore(bins[j], BookPrice, p90) <= score]_vars

\* C25 (amended): a direction's score is 0.0 and its distance None when no
\* bucket on the direction's side of the price has a positive score (none
\* exists, or each one's score is 0.0); otherwise the score is in (0, 1] and
\* is the maximum over the same-side buckets, and the distance is that of
\* the first bucket that has it.
ProximityOfBestBucket ==
    [][\A now_ms \in ScoringTimes : BookScore(now_ms) =>
          \A need_above \in BOOLEAN :
              \A bins \in {DecayedBins(book_events', IF need_above THEN "SHORT" ELSE "LONG", now_ms)} :
              \A p90 \in {PercentileTimes10([i \in DOMAIN bins |-> bins[i].weighted_notional], 9)} :
              \A same \in {{i \in DOMAIN bins :
                              /\ SameSide(bins[i].bucket_price, BookPrice, need_above)
                              /\ BucketScore(bins[i], BookPrice, p90) > 0}} :
              LET score == IF need_above THEN proximity'.long_score ELSE proximity'.short_score
                  distance == IF need_above THEN proximity'.long_distance_pct
                              ELSE proximity'.short_distance_pct
              IN  IF same = {} THEN score = 0 /\ distance = None
                  ELSE /\ score \in 1..ScoreUnit
                       /\ \E i \in same :
                              /\ BucketScore(bins[i], BookPrice, p90) = score
                              /\ DistancePct(bins[i].bucket_price, BookPrice) = distance
                              /\ \A j \in same : BucketScore(bins[j], BookPrice, p90) <= score
                              /\ \A j \in same : j < i => BucketScore(bins[j], BookPrice, p90) < score]_vars

\* C25 witness: a cycle has scored a book with two SHORT-liquidation buckets
\* at and above the price; the LONG score is that of the second bucket, at
\* distance 0, which beats the first, and the SHORT direction, with no
\* bucket, has score 0.0 and no distance.
SecondBucketBest ==
    /\ proximity.scored
    /\ proximity = ProximityScores(book_events, BookPrice, proximity.now_ms)
    /\ LET bins == DecayedBins(book_events, "SHORT", proximity.now_ms)
       IN  /\ Len(bins) = 2
           /\ bins[1].bucket_price > BookPrice
           /\ bins[2].bucket_price = BookPrice
    /\ proximity.long_score > 0
    /\ proximity.long_distance_pct = 0
    /\ proximity.short_score = 0
    /\ proximity.short_distance_pct = None

\* C26: the scores and distances of a scoring cycle are those of the book
\* without the liquidations older than the window at the scoring time,
\* whatever the order in which the liquidations were added.
StaleLiquidationIgnored ==
    [][\A now_ms \in ScoringTimes : BookScore(now_ms) =>
          \A expected \in {ProximityScores(
                  SelectSeq(book_events, LAMBDA e : ~(e.ts_ms < now_ms - WindowMs)),
                  BookPrice, now_ms)} :
              /\ proximity'.long_score = expected.long_score
              /\ proximity'.short_score = expected.short_score
              /\ proximity'.long_distance_pct = expected.long_distance_pct
              /\ proximity'.short_distance_pct = expected.short_distance_pct]_vars

HigherScoreDirection ==
    (l0_cycle.outcome = "scored" /\ l0_cycle.long_pass /\ l0_cycle.short_pass) =>
        /\ l0_cycle.emitted
        /\ trap_event.event_id = l0_cycle.n
        /\ trap_event.direction =
              IF l0_cycle.score_short > l0_cycle.score_long THEN "SHORT" ELSE "LONG"
        /\ trap_event.score = Max(l0_cycle.score_long, l0_cycle.score_short)

\* C28 witness: both directions passed with equal scores and the event is
\* LONG, after a cycle in which both passed and SHORT, higher, was emitted.
TieEmittedLong ==
    /\ l0_cycle.outcome = "scored"
    /\ l0_cycle.n = 2
    /\ l0_cycle.long_pass
    /\ l0_cycle.short_pass
    /\ l0_cycle.score_long = l0_cycle.score_short
    /\ trap_event.event_id = 2
    /\ trap_event.direction = "LONG"
    /\ Len(score_history) = 2
    /\ score_history[1] > score_history[2]

\* C22: a Layer1 scoring cycle that finds a setup active and not expired,
\* enough trades and the gate passing emits exactly one AbsorptionEvent,
\* whose source_trap_event_id is the setup's event_id, and leaves the setup
\* active; cycle after cycle, as long as these conditions last.
AbsorptionEveryPassingCycle ==
    [][(layer = 1 /\ active_setup # NoEvent /\ ~L1Expired(now, active_setup)
            /\ L1Score(TRUE, TRUE)) =>
          /\ active_setup' = active_setup
          /\ Total(absorptions') = Total(absorptions) + 1
          /\ absorptions'[active_setup.id] = absorptions[active_setup.id] + 1
          /\ absorption_event'.source_trap_event_id = active_setup.id
          /\ absorption_event'.ts_ms = now]_vars

\* C22 witness: two AbsorptionEvents have been emitted from one setup, which
\* is still the active one.
SetupAbsorbedTwice ==
    /\ layer = 1
    /\ active_setup # NoEvent
    /\ absorptions[active_setup.id] = 2
    /\ absorption_event # NotEmitted
    /\ absorption_event.source_trap_event_id = active_setup.id

\* C30: Layer1's consumer makes a received event the active setup when it has
\* passed and its symbol is the configured one in any letter case, whatever
\* setup was active; any other received event leaves the active setup as it
\* was; in both cases nothing is emitted.
ConsumerTracksLatestSetup ==
    [][(layer = 1 /\ active_setup' # active_setup /\ active_setup' # NoEvent) =>
        \A e \in CasedArrivals : L1Consume(e) =>
          /\ IF e.passed /\ e.symbol \in {"BTCUSDT", "btcusdt"}
             THEN active_setup' = [id |-> e.id, ts_ms |-> e.ts_ms, direction |-> e.direction,
                                   source_trap_event_id |-> e.source_trap_event_id,
                                   symbol |-> e.symbol]
             ELSE active_setup' = active_setup
          /\ absorption_event' = absorption_event
          /\ absorptions' = absorptions]_vars

\* C30 witness: an event was emitted from setup 1 while it was active, and a
\* later passing setup, 2, whose symbol is written in lower case, has
\* replaced it.
SetupReplaced ==
    /\ layer = 1
    /\ absorption_event # NotEmitted
    /\ absorption_event.source_trap_event_id = 1
    /\ active_setup # NoEvent
    /\ active_setup.id = 2
    /\ active_setup.symbol = "btcusdt"
    /\ absorptions[2] = 0

\* C31: the degrade_reason of an emitted event is present exactly when the
\* cycle collected a reason code, and is then the "|"-join of the cycle's
\* distinct codes in ascending order: its k-th part is the code that has
\* exactly k-1 of the cycle's codes before it.
DegradeReasonSortedJoin ==
    degrade_reason.emitted =>
        LET codes == {reason_codes[k] : k \in DOMAIN reason_codes}
            part(k) == CHOOSE a \in codes :
                            Cardinality({b \in codes : Rank(b) < Rank(a)}) = k - 1
        IN  /\ degrade_reason.present <=> reason_codes # <<>>
            /\ degrade_reason.present =>
                    degrade_reason.text = JoinBar([k \in 1..Cardinality(codes) |-> part(k)])

\* C31 witness: a cycle appended a code twice and out of order, and the event
\* carries each code once, in order
DuplicateReasonJoinedOnce ==
    /\ reason_codes = <<"SMC_RUNTIMEERROR", "CANDLE_RUNTIMEERROR", "SMC_RUNTIMEERROR">>
    /\ degrade_reason.emitted
    /\ degrade_reason.text = "CANDLE_RUNTIMEERROR|SMC_RUNTIMEERROR"

\* C32: run_layerN closes its collaborators (it is past its gather) only
\* when cancel() has been called on every worker task of the layer and every
\* one of them has ended.
CloseAfterWorkersEnded ==
    runner \in {"closing", "returned"} =>
        \A t \in TaskNames : t \in cancel_sent /\ Finished(t)

\* C32 witness: run_layerN is closing its collaborators; one worker was ended
\* by the CancelledError and another had already returned by itself
ClosingWithAllWorkersEnded ==
    /\ runner = "closing"
    /\ cancel_sent = TaskNames
    /\ \E t \in TaskNames : tasks[t] = "cancelled"
    /\ \E t \in TaskNames : tasks[t] = "done"

\* C33: every component of a SignalBreakdown and of an AbsorptionBreakdown,
\* and the score a TrapSetupEvent, an AbsorptionEvent or a PrePumpEvent is
\* built with, lies in [0, 1] (components in percent, scores in units of
\* 1e-4), whatever the cycle measured.
ScoresWithinUnitInterval ==
    score_output # NoScores =>
        /\ \A k \in DOMAIN score_output.components :
                score_output.components[k] \in 0..Percent
        /\ \A k \in DOMAIN score_output.scores :
                score_output.scores[k] \in 0..(Percent * Percent)

\* C33 witness: a Layer1 cycle whose weighted components already sum to 1
\* (an inflow beyond its scale, under a weight of 1) and whose hidden
\* divergence adds 0.1 scores exactly 1
AbsorptionScoreCapped ==
    /\ score_output # NoScores
    /\ score_output.layer = 1
    /\ score_input.weights = <<0, 0, 0, 100>>
    /\ score_input.direction = "LONG"
    /\ score_input.price_delta > 0 /\ score_input.cvd_delta < 0
    /\ score_input.stablecoin > Percent
    /\ score_output.components[7] = Percent
    /\ score_output.components[5] = HiddenDivergenceFloor
    /\ score_output.scores[1] = Percent * Percent

\* C34: when a scoring cycle that was suspended in the detector completes,
\* an absorption the consumer installed meanwhile (another one than the
\* cycle scores) is still the active absorption.
NewerAbsorptionSurvives ==
    [][(/\ l2_cycle.pc = "detect"
        /\ l2_cycle' = IdleCycle
        /\ active_absorption # NoEvent
        /\ active_absorption.id # l2_cycle.absorption.id)
       => active_absorption' = active_absorption]_vars

\* C35: in live mode, when _process_event ends after the execution client
\* has received an order beyond the entry order (so the entry order was
\* accepted), the entry is recorded: last_entry_ts_ms and recent_entry_ts
\* hold its time and the event id is among the seen ids.
EntryRecordedOnceAccepted ==
    [][(/\ live_mode
        /\ l3_call.pc = "execute"
        /\ l3_call' = IdleCall
        /\ Len(order_calls') >= 2)
       => /\ last_entry_ts_ms' = now
          /\ recent_entry_ts' = Append(recent_entry_ts, now)
          /\ l3_call.event.id \in seen_source_event_ids']_vars

\* C36: no worker task of a layer ever completes an iteration of its loop
\* without having suspended in it, whatever the configured cadence.
EveryIterationSuspends ==
    \A t \in AllTaskNames : tasks[t] # "spin"

\* C37: at every point the events emitted into the channel are as many as
\* the received ones plus the queued ones plus the drops its producers
\* counted, and the received and queued events are distinct emitted events
\* in the order of their emission: nothing is lost uncounted, nothing twice.
ChannelConservation ==
    LET emitted == (next_event - 1) - Cardinality({p \in Producers : putters[p] # 0})
        kept == received \o out_queue
        drops == SumOver(queue_drops, Producers)
    IN  /\ emitted = Len(received) + Len(out_queue) + drops
        /\ \A i \in 1..Len(kept) : kept[i] \in 1..(next_event - 1)
        /\ \A i, j \in 1..Len(kept) : i < j => kept[i] < kept[j]

\* C37 witness: of five emitted events one was received, one is queued and
\* three were dropped, by both producers.
ReceivedQueuedAndDropped ==
    /\ next_event = 6
    /\ Len(received) = 1
    /\ Len(out_queue) = 1
    /\ queue_drops[1] >= 1
    /\ queue_drops[2] >= 1

\* C38: a call of _process_event that ends in one of its pre-checks places
\* no order, sends no notification, emits no ExecutionEvent and leaves
\* last_entry_ts_ms, the seen ids and the health counters as they were; and
\* only an event that is within its TTL, not seen, outside the cooldown and
\* under the hourly cap gets past the pre-checks.
RejectedEventChangesNothing ==
    [][/\ (l3_call.pc = "idle" /\ l3_call'.pc = "idle") =>
            UNCHANGED <<order_calls, error_alerts, executions, execution_event,
                        last_entry_ts_ms, seen_source_event_ids, seen_source_fifo,
                        l3_errors, emitted_events, last_emitted_ts_ms>>
       /\ (l3_call.pc = "idle" /\ l3_call'.pc = "execute") =>
            /\ (now - l3_call'.event.ts_ms) <= TtlMs
            /\ l3_call'.event.id \notin seen_source_event_ids
            /\ ~(/\ last_entry_ts_ms # -1
                 /\ min_entry_gap_us > 0
                 /\ (now - last_entry_ts_ms) < min_entry_gap_us \div 1000)
            /\ ~(/\ max_entries_per_hour > 0
                 /\ Len(recent_entry_ts') >= max_entries_per_hour)]_vars

\* C38 witness: in live mode with a notifier, an event other than the one
\* executed was returned at the cooldown test; the four orders, the one
\* ExecutionEvent and the counters are those of the executed event.
CooldownRejectedAfterLiveEntry ==
    /\ live_mode
    /\ telegram_enabled
    /\ l3_return.how = "cooldown"
    /\ l3_return.pre_executions = 1
    /\ Len(executions) = 1
    /\ Len(order_calls) = 4
    /\ seen_source_fifo = <<executions[1].source_pre_pump_event_id>>
    /\ last_entry_ts_ms = executions[1].ts_ms
    /\ emitted_events = 1
    /\ last_emitted_ts_ms = executions[1].ts_ms
    /\ l3_errors = 0

\* C39: in every layer an emission raises emitted_events by exactly one and
\* sets last_emitted_ts_ms to the ts_ms of the emitted event, so the time of
\* the last emission is known whenever something was emitted.
EmissionMarksHealth ==
    /\ emitted_events > 0 => last_emitted_ts_ms # -1
    /\ layer = 0 /\ trap_event # NoTrapSetup => last_emitted_ts_ms = trap_event.ts_ms
    /\ layer = 1 /\ absorption_event # NotEmitted
            => last_emitted_ts_ms = absorption_event.ts_ms
    /\ layer = 2 /\ pre_pump_event # NotEmitted
            => last_emitted_ts_ms = pre_pump_event.ts_ms
    /\ layer = 3 /\ execution_event # NotEmitted
            => last_emitted_ts_ms = execution_event.ts_ms
    /\ layer = 0 => (emitted_events > 0 <=> trap_event # NoTrapSetup)
    /\ layer = 1 => emitted_events = Total(absorptions)
    /\ layer = 2 => emitted_events = Total(ignitions)
    /\ layer = 3 => emitted_events = Len(executions)

\* C40: after every processed event the set of seen ids is the set of ids in
\* the seen-id FIFO, the FIFO holds no id twice, neither holds more ids than
\* the FIFO's capacity, and an id recorded at capacity replaces the oldest id
\* in both.
SeenSetMatchesFifo ==
    [][/\ seen_source_event_ids'
            = {seen_source_fifo'[i] : i \in 1..Len(seen_source_fifo')}
       /\ \A i, j \in 1..Len(seen_source_fifo') :
            i < j => seen_source_fifo'[i] # seen_source_fifo'[j]
       /\ Len(seen_source_fifo') <= seen_fifo_maxlen
       /\ Cardinality(seen_source_event_ids') <= seen_fifo_maxlen
       /\ (Len(executions') > Len(executions)
                /\ Len(seen_source_fifo) = seen_fifo_maxlen) =>
            /\ seen_source_fifo' = Append(Tail(seen_source_fifo), l3_call.event.id)
            /\ seen_source_event_ids'
                = (seen_source_event_ids \ {Head(seen_source_fifo)})
                    \cup {l3_call.event.id}]_vars

\* C40 witness: with room for one id, a second event was executed and its
\* id took the place of the first in the FIFO and in the set.
OldestSeenIdEvicted ==
    /\ seen_fifo_maxlen = 1
    /\ Len(executions) = 2
    /\ executions[1].source_pre_pump_event_id # executions[2].source_pre_pump_event_id
    /\ seen_source_fifo = <<executions[2].source_pre_pump_event_id>>
    /\ seen_source_event_ids = {executions[2].source_pre_pump_event_id}

====
